---- MODULE Spec2Model ----
(***************************************************************************)
(* Simulation core of the three-lane runner: Player (src/player.js),       *)
(* LavaManager and ParticleManager (hazard and emitter pools), the Game    *)
(* loop and the input handlers of main.                                    *)
(*                                                                         *)
(* Numbers are kept exact in fixed point:                                  *)
(*   time        1 = 1 ms          (deltaTime, timers, intervals)          *)
(*   x           1 = 1/25600       (LANE_WIDTH = 2.5 -> 64000)             *)
(*   z           1 = 1e-4                                                  *)
(*   speed       1 = 1e-3 per s                                            *)
(*   y           offset above jumpStartY, 1 = 1/(10 * jumpDuration^2)      *)
(*   score       1 = 1e-3 point                                            *)
(*   pose signal 1 = 1e-3, pose cooldown 1 = 1/600 s                       *)
(***************************************************************************)
EXTENDS Integers, Sequences, FiniteSets, TLC

VARIABLES
    player,      \* the Player object (src/player.js)
    lava,        \* the LavaManager and the ParticleManager it owns
    game,        \* the Game: running, gameOver, score, currentSpeed, animationId
    raf,         \* the browser's queue of requestAnimationFrame callbacks, in order
    frameLeft,   \* callbacks of the frame in progress that have not run yet
    frameDelta,  \* what the next clock.getDelta() returns
    pose,        \* main's restingShoulderY and poseJumpCooldownTimer
    hitLava,     \* result of the last checkCollision call
    lastOp,      \* history: the method called last, where methods are called directly
    ticks,       \* history: simulation ticks executed since the last start callback
    starts,      \* history: start() calls made so far
    samples,     \* history: pose samples delivered since the last start()
    ended,       \* history: how the game ended since the last start() call
    tracker,     \* the PoseTracker and its video element (src/unnamed/part_000)
    page,        \* main's start button, status text and whether a Game exists
    mplayer      \* SpecTwin: an animated-model Player (src/unnamed/part_001)

vars == <<player, lava, game, raf, frameLeft, frameDelta, pose, hitLava,
          lastOp, ticks, starts, samples, ended, tracker, page, mplayer>>

----------------------------------------------------------------------------
(* Program constants *)

LANE_WIDTH == 64000
LANES == <<-LANE_WIDTH, 0, LANE_WIDTH>>     \* indexed by lane + 1
PLATFORM_DEPTH == 20000
PLAYER_START_Z == 20000
PLAYER_LANE_CHANGE_COOLDOWN == 1000
INITIAL_GAME_SPEED == 7000
MAX_GAME_SPEED == 50000
GAME_SPEED_INCREASE_RATE == 350
GAME_AREA_LENGTH == 750000
INITIAL_SPAWN_INTERVAL == 4000
MIN_SPAWN_INTERVAL == 900
SPAWN_INTERVAL_DECREMENT == 250
SCORE_RATE == 10
JUMP_DURATION == 1200
JUMP_APEX_DELTA == 28            \* jumpApexY - jumpStartY = 2.8, in tenths
JUMP_CLEARANCE_HEIGHT == 3       \* 0.3, in tenths
BOUNCE_HEIGHT == 1               \* 0.1, in tenths
MOVE_SPEED == 25
SNAP_EPSILON == 256              \* 0.01 in x units
JUMP_DETECTION_THRESHOLD == 60
POSE_JUMP_COOLDOWN == 420
POSE_COOLDOWN_STEP == 10         \* 1/60 s

YScale == JUMP_DURATION * JUMP_DURATION
LaneX(lane) == LANES[lane + 1]

Lanes == 0..2
Null == 0                        \* null reference / null animationId

----------------------------------------------------------------------------
(* Arithmetic helpers *)

Min(a, b) == IF a < b THEN a ELSE b
Max(a, b) == IF a > b THEN a ELSE b
Abs(a) == IF a < 0 THEN -a ELSE a
\* quotient rounded toward zero (every quotient of the model is exact for the
\* deltas it draws)
Quot(a, b) == IF a >= 0 THEN a \div b ELSE -((-a) \div b)
\* a * b / c for a, b >= 0 without leaving 32 bits
MulDiv(a, b, c) == a * (b \div c) + (a * (b % c)) \div c
\* distance in z units covered at speed (1e-3 per s) in deltaTime (ms)
Travel(speed, deltaTime) == MulDiv(speed, deltaTime, 100)

----------------------------------------------------------------------------
(* Player (src/player.js) *)

NewPlayer ==
    [targetLane |-> 1, currentLane |-> 1, isOnCooldown |-> FALSE,
     cooldownTimer |-> 0, isJumping |-> FALSE, jumpTimer |-> 0,
     bounceTimer |-> 0, x |-> LaneX(1), y |-> 0, z |-> PLAYER_START_Z,
     modelLoaded |-> FALSE]

ClampLane_None(laneIndex) == laneIndex

ClampLane(laneIndex) == Max(0, Min(2, laneIndex))

Player_setTargetLane_NoCooldown(p, laneIndex) ==
    LET newLane == ClampLane(laneIndex) IN
    IF newLane # p.targetLane
    THEN [p EXCEPT !.targetLane = newLane, !.isOnCooldown = TRUE,
                   !.cooldownTimer = PLAYER_LANE_CHANGE_COOLDOWN]
    ELSE p

Player_setTargetLane_SameLaneCooldown(p, laneIndex) ==
    LET newLane == ClampLane(laneIndex) IN
    IF ~p.isOnCooldown
    THEN [p EXCEPT !.targetLane = newLane, !.isOnCooldown = TRUE,
                   !.cooldownTimer = PLAYER_LANE_CHANGE_COOLDOWN]
    ELSE p

Player_setTargetLane(p, laneIndex) ==
    LET newLane == ClampLane(laneIndex) IN
    IF ~p.isOnCooldown /\ newLane # p.targetLane
    THEN [p EXCEPT !.targetLane = newLane, !.isOnCooldown = TRUE,
                   !.cooldownTimer = PLAYER_LANE_CHANGE_COOLDOWN]
    ELSE p

Player_jump_Restart(p) == [p EXCEPT !.isJumping = TRUE, !.jumpTimer = 0]

Player_jump(p) ==
    IF ~p.isJumping
    THEN [p EXCEPT !.isJumping = TRUE, !.jumpTimer = 0]
    ELSE p

Player_reset(p) ==
    [p EXCEPT !.currentLane = 1, !.targetLane = 1, !.isOnCooldown = FALSE,
              !.cooldownTimer = 0, !.isJumping = FALSE, !.jumpTimer = 0,
              !.bounceTimer = 0, !.x = LaneX(1), !.y = 0, !.z = PLAYER_START_Z]

\* y = jumpStartY + 4 * apexDelta * (progress - progress^2),
\* progress = min(1, jumpTimer / jumpDuration)
JumpArc(jumpTimer) ==
    LET t == Min(JUMP_DURATION, jumpTimer) IN
    4 * JUMP_APEX_DELTA * t * (JUMP_DURATION - t)

\* bounceTimer is kept by its sign (0: zero, 1: positive), and
\* |sin(bounceTimer)| * bounceHeight, which is 0 at bounceTimer = 0 and in
\* (0, bounceHeight] otherwise, by 0 and by its upper end
BounceOffset(bounceTimer) == IF bounceTimer = 0 THEN 0 ELSE BOUNCE_HEIGHT * YScale
BounceOffsets == {BounceOffset(0), BounceOffset(1)}

Player_bounce(p, deltaTime) ==
    IF ~p.isJumping
    THEN LET bt == IF deltaTime > 0 THEN 1 ELSE p.bounceTimer IN
         [p EXCEPT !.bounceTimer = bt, !.y = BounceOffset(bt)]
    ELSE p

Player_cooldown(p, deltaTime) ==
    IF p.isOnCooldown
    THEN LET t == p.cooldownTimer - deltaTime IN
         IF t <= 0
         THEN [p EXCEPT !.isOnCooldown = FALSE, !.cooldownTimer = 0]
         ELSE [p EXCEPT !.cooldownTimer = t]
    ELSE p

Player_jumpPhysics_EndLate(p, deltaTime) ==
    IF p.isJumping
    THEN LET jt == p.jumpTimer + deltaTime IN
         IF jt > JUMP_DURATION
         THEN [p EXCEPT !.jumpTimer = jt, !.isJumping = FALSE, !.y = 0,
                        !.bounceTimer = 0]
         ELSE [p EXCEPT !.jumpTimer = jt, !.y = JumpArc(jt)]
    ELSE p

Player_jumpPhysics(p, deltaTime) ==
    IF p.isJumping
    THEN LET jt == p.jumpTimer + deltaTime IN
         IF jt >= JUMP_DURATION
         THEN [p EXCEPT !.jumpTimer = jt, !.isJumping = FALSE, !.y = 0,
                        !.bounceTimer = 0]
         ELSE [p EXCEPT !.jumpTimer = jt, !.y = JumpArc(jt)]
    ELSE p

\* the lane movement without the test that prevents overshooting
Player_laneMovement_NoClamp(p, deltaTime) ==
    LET targetX == LaneX(p.targetLane)
        difference == targetX - p.x
        moveDistance == Quot(difference * ((MOVE_SPEED * deltaTime) \div 5), 200)
    IN  IF Abs(difference) > SNAP_EPSILON
        THEN [p EXCEPT !.x = p.x + moveDistance, !.z = PLAYER_START_Z]
        ELSE [p EXCEPT !.x = targetX, !.currentLane = p.targetLane,
                       !.z = PLAYER_START_Z]

Player_laneMovement(p, deltaTime) ==
    LET targetX == LaneX(p.targetLane)
        difference == targetX - p.x
        moveDistance == Quot(difference * MOVE_SPEED * deltaTime, 1000)
    IN  IF Abs(difference) > SNAP_EPSILON
        \* |moveDistance| > |difference|, difference being nonzero here
        THEN IF MOVE_SPEED * deltaTime > 1000
             THEN [p EXCEPT !.x = targetX, !.z = PLAYER_START_Z]
             ELSE [p EXCEPT !.x = p.x + moveDistance, !.z = PLAYER_START_Z]
        ELSE [p EXCEPT !.x = targetX, !.currentLane = p.targetLane,
                       !.z = PLAYER_START_Z]

Player_update(p, deltaTime) ==
    Player_laneMovement(
        Player_jumpPhysics(
            Player_cooldown(Player_bounce(p, deltaTime), deltaTime),
            deltaTime),
        deltaTime)

----------------------------------------------------------------------------
(* Player, the animated-model class (the second player.js); the same fields,
   without the bounce: bounceTimer stays 0 and y is the base height whenever
   the player is not jumping *)

\* after construction: the fields set in the constructor and its reset()
NewMPlayer ==
    [targetLane |-> 1, currentLane |-> 1, isOnCooldown |-> FALSE,
     cooldownTimer |-> 0, isJumping |-> FALSE, jumpTimer |-> 0,
     bounceTimer |-> 0, x |-> LaneX(1), y |-> 0, z |-> PLAYER_START_Z,
     modelLoaded |-> FALSE]

MPlayer_jump(p) ==
    IF ~p.isJumping
    THEN [p EXCEPT !.isJumping = TRUE, !.jumpTimer = 0]
    ELSE p

MPlayer_setTargetLane(p, laneIndex) ==
    LET newLane == Max(0, Min(2, laneIndex)) IN
    IF ~p.isOnCooldown /\ newLane # p.targetLane
    THEN [p EXCEPT !.targetLane = newLane, !.isOnCooldown = TRUE,
                   !.cooldownTimer = PLAYER_LANE_CHANGE_COOLDOWN]
    ELSE p

MPlayer_reset(p) ==
    [p EXCEPT !.currentLane = 1, !.targetLane = 1, !.isOnCooldown = FALSE,
              !.cooldownTimer = 0, !.isJumping = FALSE, !.jumpTimer = 0,
              !.x = LaneX(1), !.y = 0, !.z = PLAYER_START_Z]

\* the cooldown ending only once the timer is below 0
MPlayer_cooldown_EndLate(p, deltaTime) ==
    IF p.isOnCooldown
    THEN LET t == p.cooldownTimer - deltaTime IN
         IF t < 0
         THEN [p EXCEPT !.isOnCooldown = FALSE, !.cooldownTimer = 0]
         ELSE [p EXCEPT !.cooldownTimer = t]
    ELSE p

MPlayer_cooldown(p, deltaTime) ==
    IF p.isOnCooldown
    THEN LET t == p.cooldownTimer - deltaTime IN
         IF t <= 0
         THEN [p EXCEPT !.isOnCooldown = FALSE, !.cooldownTimer = 0]
         ELSE [p EXCEPT !.cooldownTimer = t]
    ELSE p

MPlayer_jumpPhysics(p, deltaTime) ==
    IF p.isJumping
    THEN LET jt == p.jumpTimer + deltaTime IN
         IF jt >= JUMP_DURATION
         THEN [p EXCEPT !.jumpTimer = jt, !.isJumping = FALSE, !.y = 0]
         ELSE [p EXCEPT !.jumpTimer = jt, !.y = JumpArc(jt)]
    ELSE p

MPlayer_laneMovement(p, deltaTime) ==
    LET targetX == LaneX(p.targetLane)
        difference == targetX - p.x
        moveDistance == Quot(difference * MOVE_SPEED * deltaTime, 1000)
    IN  IF Abs(difference) > SNAP_EPSILON
        THEN IF MOVE_SPEED * deltaTime > 1000
             THEN [p EXCEPT !.x = targetX, !.z = PLAYER_START_Z]
             ELSE [p EXCEPT !.x = p.x + moveDistance, !.z = PLAYER_START_Z]
        ELSE [p EXCEPT !.x = targetX, !.currentLane = p.targetLane,
                       !.z = PLAYER_START_Z]

MPlayer_update(p, deltaTime) ==
    LET q == MPlayer_laneMovement(
                 MPlayer_jumpPhysics(MPlayer_cooldown(p, deltaTime), deltaTime),
                 deltaTime)
    IN  IF ~q.isJumping THEN [q EXCEPT !.y = 0] ELSE q

\* the state of the animated-model Player that stands for a state of the
\* sprite Player: no bounce
MPlayer_of(p) ==
    [p EXCEPT !.bounceTimer = 0, !.y = IF p.isJumping THEN @ ELSE 0]

----------------------------------------------------------------------------
(* Sequence helpers *)

Last(s) == s[Len(s)]
Front(s) == SubSeq(s, 1, Len(s) - 1)
Range(s) == {s[i] : i \in 1..Len(s)}
\* Array.prototype.splice(i, 1), 1-based
RemoveAt(s, i) == SubSeq(s, 1, i - 1) \o SubSeq(s, i + 1, Len(s))
\* Array.prototype.indexOf, 1-based; 0 when absent
IndexOf(s, e) ==
    IF \E i \in 1..Len(s) : s[i] = e
    THEN CHOOSE i \in 1..Len(s) : s[i] = e /\ \A j \in 1..(i - 1) : s[j] # e
    ELSE 0
Count(s, e) == Cardinality({i \in 1..Len(s) : s[i] = e})

----------------------------------------------------------------------------
(* ParticleManager (src/ParticleManager.js).  systems is the heap of emitter
   objects ever constructed, an emitter being named by its index; the random
   particle buffers of an emitter are not part of the model. *)

NewParticleManager == [particleSystems |-> <<>>, pool |-> <<>>, systems |-> <<>>]

\* getSystem reusing the last pooled system without taking it off the pool
PM_getSystem_NoPop(pm, z) ==
    IF Len(pm.pool) > 0
    THEN LET s == Last(pm.pool) IN
         [pm |-> [pm EXCEPT !.systems[s] = [z |-> z, visible |-> TRUE],
                            !.particleSystems = Append(@, s)],
          system |-> s]
    ELSE LET s == Len(pm.systems) + 1 IN
         [pm |-> [pm EXCEPT !.systems = Append(@, [z |-> z, visible |-> TRUE]),
                            !.particleSystems = Append(@, s)],
          system |-> s]

PM_getSystem(pm, z) ==
    IF Len(pm.pool) > 0
    THEN LET s == Last(pm.pool) IN
         [pm |-> [pm EXCEPT !.pool = Front(@),
                            !.systems[s] = [z |-> z, visible |-> TRUE],
                            !.particleSystems = Append(@, s)],
          system |-> s]
    ELSE LET s == Len(pm.systems) + 1 IN
         [pm |-> [pm EXCEPT !.systems = Append(@, [z |-> z, visible |-> TRUE]),
                            !.particleSystems = Append(@, s)],
          system |-> s]

PM_returnSystem(pm, system) ==
    LET index == IndexOf(pm.particleSystems, system) IN
    [pm EXCEPT !.systems[system].visible = FALSE,
               !.particleSystems = IF index > 0 THEN RemoveAt(@, index) ELSE @,
               !.pool = Append(@, system)]

RECURSIVE PM_reset(_)
PM_reset(pm) ==
    IF Len(pm.particleSystems) > 0
    THEN PM_reset(PM_returnSystem(pm, pm.particleSystems[1]))
    ELSE pm

----------------------------------------------------------------------------
(* LavaManager (lavaManager.js).  meshes is the heap of hazard meshes ever
   constructed, a hazard being named by its index. *)

NewLavaManager ==
    [lavaHazards |-> <<>>, pool |-> <<>>, spawnTimer |-> 0,
     spawnInterval |-> INITIAL_SPAWN_INTERVAL, meshes |-> <<>>,
     particleManager |-> NewParticleManager]

NewMesh == [lane |-> -1, z |-> 0, visible |-> TRUE, particleSystem |-> Null]

\* the body of the forEach of reset, applied to lavaHazards[i..]
RECURSIVE Lava_resetEach(_, _)
Lava_resetEach(lm, i) ==
    IF i > Len(lm.lavaHazards) THEN lm
    ELSE LET h == lm.lavaHazards[i]
             ps == lm.meshes[h].particleSystem
             lm1 == IF ps # Null
                    THEN [lm EXCEPT !.particleManager = PM_returnSystem(@, ps)]
                    ELSE lm
         IN  Lava_resetEach([lm1 EXCEPT !.meshes[h].visible = FALSE,
                                        !.pool = Append(@, h)],
                            i + 1)

Lava_reset(lm) ==
    [Lava_resetEach(lm, 1) EXCEPT
        !.lavaHazards = <<>>,
        !.particleManager = PM_reset(@),
        !.spawnTimer = (INITIAL_SPAWN_INTERVAL * 3) \div 4,
        !.spawnInterval = INITIAL_SPAWN_INTERVAL]

\* _createLavaMesh constructing a mesh whatever the pool holds
Lava_createLavaMesh_AlwaysNew(lm) ==
    [lm |-> [lm EXCEPT !.meshes = Append(@, NewMesh)],
     mesh |-> Len(lm.meshes) + 1]

Lava_createLavaMesh(lm) ==
    IF Len(lm.pool) > 0
    THEN LET h == Last(lm.pool) IN
         [lm |-> [lm EXCEPT !.pool = Front(@), !.meshes[h].visible = TRUE],
          mesh |-> h]
    ELSE [lm |-> [lm EXCEPT !.meshes = Append(@, NewMesh)],
          mesh |-> Len(lm.meshes) + 1]

Lava_spawnLava(lm, targetZ, lane) ==
    LET c == Lava_createLavaMesh(lm)
        g == PM_getSystem(c.lm.particleManager, targetZ)
    IN  [c.lm EXCEPT !.meshes[c.mesh].lane = lane,
                     !.meshes[c.mesh].z = targetZ,
                     !.meshes[c.mesh].particleSystem = g.system,
                     !.particleManager = g.pm,
                     !.lavaHazards = Append(@, c.mesh)]

\* the spawn branch lowering the interval without the floor
Lava_spawning_NoFloor(lm, deltaTime, playerZ, lane) ==
    LET timer == lm.spawnTimer + deltaTime IN
    IF timer >= lm.spawnInterval
    THEN LET spawnZ == playerZ - (GAME_AREA_LENGTH * 9) \div 10
             s == Lava_spawnLava(lm, spawnZ, lane)
         IN  [s EXCEPT !.spawnTimer = 0,
                       !.spawnInterval = @ - SPAWN_INTERVAL_DECREMENT]
    ELSE [lm EXCEPT !.spawnTimer = timer]

\* the spawn branch taken only once the timer has passed the interval
Lava_spawning_Late(lm, deltaTime, playerZ, lane) ==
    LET timer == lm.spawnTimer + deltaTime IN
    IF timer > lm.spawnInterval
    THEN LET spawnZ == playerZ - (GAME_AREA_LENGTH * 9) \div 10
             s == Lava_spawnLava(lm, spawnZ, lane)
         IN  [s EXCEPT !.spawnTimer = 0,
                       !.spawnInterval =
                           IF @ > MIN_SPAWN_INTERVAL
                           THEN Max(MIN_SPAWN_INTERVAL, @ - SPAWN_INTERVAL_DECREMENT)
                           ELSE @]
    ELSE [lm EXCEPT !.spawnTimer = timer]

Lava_spawning(lm, deltaTime, playerZ, lane) ==
    LET timer == lm.spawnTimer + deltaTime IN
    IF timer >= lm.spawnInterval
    THEN LET spawnZ == playerZ - (GAME_AREA_LENGTH * 9) \div 10
             s == Lava_spawnLava(lm, spawnZ, lane)
         IN  [s EXCEPT !.spawnTimer = 0,
                       !.spawnInterval =
                           IF @ > MIN_SPAWN_INTERVAL
                           THEN Max(MIN_SPAWN_INTERVAL, @ - SPAWN_INTERVAL_DECREMENT)
                           ELSE @]
    ELSE [lm EXCEPT !.spawnTimer = timer]

\* the despawn branch without the splice: the hazard stays in lavaHazards
Lava_moveOne_NoSplice(lm, i, deltaTime, playerZ, currentSpeed) ==
    LET h == lm.lavaHazards[i]
        moveZ == Travel(currentSpeed, deltaTime)
        ps == lm.meshes[h].particleSystem
        moved == [lm EXCEPT !.meshes[h].z = @ + moveZ,
                            !.particleManager.systems =
                                IF ps # Null
                                THEN [@ EXCEPT ![ps].z = @ + moveZ]
                                ELSE @]
    IN  IF moved.meshes[h].z > playerZ + PLATFORM_DEPTH * 2
        THEN [moved EXCEPT
                !.particleManager = IF ps # Null THEN PM_returnSystem(@, ps) ELSE @,
                !.meshes[h].particleSystem = Null,
                !.meshes[h].visible = FALSE,
                !.pool = Append(@, h)]
        ELSE moved

\* the despawn as soon as the hazard has reached the player
Lava_moveOne_DespawnAtPlayer(lm, i, deltaTime, playerZ, currentSpeed) ==
    LET h == lm.lavaHazards[i]
        moveZ == Travel(currentSpeed, deltaTime)
        ps == lm.meshes[h].particleSystem
        moved == [lm EXCEPT !.meshes[h].z = @ + moveZ,
                            !.particleManager.systems =
                                IF ps # Null
                                THEN [@ EXCEPT ![ps].z = @ + moveZ]
                                ELSE @]
    IN  IF moved.meshes[h].z >= playerZ
        THEN [moved EXCEPT
                !.particleManager = IF ps # Null THEN PM_returnSystem(@, ps) ELSE @,
                !.meshes[h].particleSystem = Null,
                !.meshes[h].visible = FALSE,
                !.pool = Append(@, h),
                !.lavaHazards = RemoveAt(@, i)]
        ELSE moved

\* the despawn branch that leaves the emitter where it is
Lava_moveOne_KeepEmitter(lm, i, deltaTime, playerZ, currentSpeed) ==
    LET h == lm.lavaHazards[i]
        moveZ == Travel(currentSpeed, deltaTime)
        ps == lm.meshes[h].particleSystem
        moved == [lm EXCEPT !.meshes[h].z = @ + moveZ,
                            !.particleManager.systems =
                                IF ps # Null
                                THEN [@ EXCEPT ![ps].z = @ + moveZ]
                                ELSE @]
    IN  IF moved.meshes[h].z > playerZ + PLATFORM_DEPTH * 2
        THEN [moved EXCEPT
                !.meshes[h].particleSystem = Null,
                !.meshes[h].visible = FALSE,
                !.pool = Append(@, h),
                !.lavaHazards = RemoveAt(@, i)]
        ELSE moved

\* one iteration of the movement/despawn loop, for lavaHazards[i]
Lava_moveOne(lm, i, deltaTime, playerZ, currentSpeed) ==
    LET h == lm.lavaHazards[i]
        moveZ == Travel(currentSpeed, deltaTime)
        ps == lm.meshes[h].particleSystem
        moved == [lm EXCEPT !.meshes[h].z = @ + moveZ,
                            !.particleManager.systems =
                                IF ps # Null
                                THEN [@ EXCEPT ![ps].z = @ + moveZ]
                                ELSE @]
    IN  IF moved.meshes[h].z > playerZ + PLATFORM_DEPTH * 2
        THEN [moved EXCEPT
                !.particleManager = IF ps # Null THEN PM_returnSystem(@, ps) ELSE @,
                !.meshes[h].particleSystem = Null,
                !.meshes[h].visible = FALSE,
                !.pool = Append(@, h),
                !.lavaHazards = RemoveAt(@, i)]
        ELSE moved

\* the movement loop stopping at i > 0: the first hazard is left out
RECURSIVE Lava_movement_SkipFirst(_, _, _, _, _)
Lava_movement_SkipFirst(lm, i, deltaTime, playerZ, currentSpeed) ==
    IF i < 2 THEN lm
    ELSE CHOOSE r \in
             {Lava_movement_SkipFirst(m, i - 1, deltaTime, playerZ, currentSpeed) :
                 m \in {Lava_moveOne(lm, i, deltaTime, playerZ, currentSpeed)}} : TRUE

\* the loop for (i = length - 1; i >= 0; i--), from index i down; m is the
\* manager after the body for lavaHazards[i], computed once
RECURSIVE Lava_movement(_, _, _, _, _)
Lava_movement(lm, i, deltaTime, playerZ, currentSpeed) ==
    IF i < 1 THEN lm
    ELSE CHOOSE r \in
             {Lava_movement(m, i - 1, deltaTime, playerZ, currentSpeed) :
                 m \in {Lava_moveOne(lm, i, deltaTime, playerZ, currentSpeed)}} : TRUE

\* lane is the value Math.floor(Math.random() * 3) takes if a hazard spawns
\* s is the manager after the spawning part, computed once
Lava_update(lm, deltaTime, playerZ, currentSpeed, lane) ==
    CHOOSE r \in
        {Lava_movement(s, Len(s.lavaHazards), deltaTime, playerZ, currentSpeed) :
            s \in {Lava_spawning(lm, deltaTime, playerZ, lane)}} : TRUE

\* checkCollision taking any jump as clearing the hazard
RECURSIVE Lava_checkFrom_AnyJumpClears(_, _, _)
Lava_checkFrom_AnyJumpClears(lm, p, i) ==
    IF i > Len(lm.lavaHazards) THEN FALSE
    ELSE LET mesh == lm.meshes[lm.lavaHazards[i]] IN
         IF /\ Abs(p.x - LaneX(mesh.lane)) * 10 < (LANE_WIDTH \div 2) * 9
            /\ p.z >= mesh.z - PLATFORM_DEPTH \div 2
            /\ p.z <= mesh.z + PLATFORM_DEPTH \div 2
            /\ ~p.isJumping
         THEN TRUE
         ELSE Lava_checkFrom_AnyJumpClears(lm, p, i + 1)

\* checkCollision returning from inside the loop, hit or not
Lava_checkFrom_FirstOnly(lm, p, i) ==
    IF i > Len(lm.lavaHazards) THEN FALSE
    ELSE LET mesh == lm.meshes[lm.lavaHazards[i]] IN
         /\ Abs(p.x - LaneX(mesh.lane)) * 10 < (LANE_WIDTH \div 2) * 9
         /\ p.z >= mesh.z - PLATFORM_DEPTH \div 2
         /\ p.z <= mesh.z + PLATFORM_DEPTH \div 2
         /\ ~(p.isJumping /\ p.y > JUMP_CLEARANCE_HEIGHT * YScale)

\* the for..of loop of checkCollision from lavaHazards[i] on
RECURSIVE Lava_checkFrom(_, _, _)
Lava_checkFrom(lm, p, i) ==
    IF i > Len(lm.lavaHazards) THEN FALSE
    ELSE LET mesh == lm.meshes[lm.lavaHazards[i]]
             laneX == LaneX(mesh.lane)
         IN  IF Abs(p.x - laneX) * 10 < (LANE_WIDTH \div 2) * 9
             THEN LET lavaStartZ == mesh.z - PLATFORM_DEPTH \div 2
                      lavaEndZ == mesh.z + PLATFORM_DEPTH \div 2
                  IN  IF p.z >= lavaStartZ /\ p.z <= lavaEndZ
                      THEN IF p.isJumping /\ p.y > JUMP_CLEARANCE_HEIGHT * YScale
                           THEN Lava_checkFrom(lm, p, i + 1)
                           ELSE TRUE
                      ELSE Lava_checkFrom(lm, p, i + 1)
             ELSE Lava_checkFrom(lm, p, i + 1)

Lava_checkCollision(lm, p) == Lava_checkFrom(lm, p, 1)

----------------------------------------------------------------------------
(* Game (game.js) state after construction *)

NewGame ==
    [running |-> FALSE, gameOver |-> FALSE, score |-> 0,
     currentSpeed |-> INITIAL_GAME_SPEED, animationId |-> Null]

NoBaseline == -1000000      \* restingShoulderY = null

NewPose == [restingShoulderY |-> NoBaseline, poseJumpCooldownTimer |-> 0]

\* a PoseLandmarker object, as opposed to Null
Landmarker == 1
NoVideoTime == -1               \* lastVideoTime before any frame was processed

\* new PoseTracker(videoElement, callback), with the video element's clock
\* (currentTime, in frames), the loadeddata listener and the number of
\* _predictWebcam callbacks the browser holds for the coming frames
NewPoseTracker ==
    [poseLandmarker |-> Null, lastVideoTime |-> NoVideoTime,
     webcamRunning |-> FALSE, currentTime |-> 0, listening |-> FALSE,
     pending |-> 0]

\* main's page as the script leaves it before initializeGame() is called
\* initializing is the await at which initializeGame() stands ("no" before
\* the call, "done" after it) and initError the message of the error its
\* catch received
NewPage ==
    [startDisabled |-> TRUE, startStatusText |-> "Initializing",
     gameCreated |-> FALSE, initializing |-> "no", initError |-> "none"]

Op(name, arg) == [op |-> name, arg |-> arg]

InitCommon ==
    /\ mplayer = NewMPlayer
    /\ tracker = NewPoseTracker
    /\ page = NewPage
    /\ player = NewPlayer
    /\ lava = NewLavaManager
    /\ game = NewGame
    /\ raf = <<>>
    /\ frameLeft = 0
    /\ frameDelta = 0
    /\ pose = NewPose
    /\ hitLava = FALSE
    /\ lastOp = Op("init", 0)
    /\ ticks = 0
    /\ starts = 0
    /\ samples = 0
    /\ ended = "no"

----------------------------------------------------------------------------
(* The browser's animation-frame queue.  raf holds the pending callbacks in
   request order, each [kind, id]; a frame runs the callbacks pending when it
   begins, in order.  Handles are opaque: a request takes the least handle
   that no pending callback and not animationId holds. *)

World ==
    [player |-> player, lava |-> lava, game |-> game, raf |-> raf,
     frameLeft |-> frameLeft, frameDelta |-> frameDelta, hitLava |-> hitLava]

SetWorld(w) ==
    /\ player' = w.player
    /\ lava' = w.lava
    /\ game' = w.game
    /\ raf' = w.raf
    /\ frameLeft' = w.frameLeft
    /\ frameDelta' = w.frameDelta
    /\ hitLava' = w.hitLava

UsedHandles(w) == {w.raf[i].id : i \in 1..Len(w.raf)} \cup {w.game.animationId}

FreshHandle(w) ==
    CHOOSE id \in 1..(Len(w.raf) + 2) :
        /\ id \notin UsedHandles(w)
        /\ \A j \in 1..(id - 1) : j \in UsedHandles(w)

requestAnimationFrame(w, kind) ==
    [w EXCEPT !.raf = Append(@, [kind |-> kind, id |-> FreshHandle(w)])]

cancelAnimationFrame(w, id) ==
    LET index == IndexOf([i \in 1..Len(w.raf) |-> w.raf[i].id], id) IN
    IF index = 0 THEN w
    ELSE [w EXCEPT !.raf = RemoveAt(@, index),
                   !.frameLeft = IF index <= @ THEN @ - 1 ELSE @]

----------------------------------------------------------------------------
(* Game (game.js) *)

Game_stopGameLoop(w) ==
    LET w1 == [w EXCEPT !.game.running = FALSE] IN
    IF w1.game.animationId # Null
    THEN [cancelAnimationFrame(w1, w1.game.animationId) EXCEPT
              !.game.animationId = Null]
    ELSE w1

Game_start(w) == requestAnimationFrame(Game_stopGameLoop(w), "start")

Game_stop_ReleaseAll(w) ==
    [Game_stopGameLoop(w) EXCEPT !.game.gameOver = TRUE, !.lava = Lava_reset(@)]

Game_stop(w) == [Game_stopGameLoop(w) EXCEPT !.game.gameOver = TRUE]

Game_resetGameState_KeepPlayer(w) ==
    [w EXCEPT !.game.score = 0,
              !.game.currentSpeed = INITIAL_GAME_SPEED,
              !.game.running = FALSE,
              !.game.gameOver = FALSE,
              !.lava = Lava_reset(@),
              !.frameDelta = 0]

Game_resetGameState(w) ==
    [w EXCEPT !.game.score = 0,
              !.game.currentSpeed = INITIAL_GAME_SPEED,
              !.game.running = FALSE,
              !.game.gameOver = FALSE,
              !.lava = Lava_reset(@),
              !.player = Player_reset(@),
              !.frameDelta = 0]

\* isRunning looking at gameOver alone
Game_isRunning_NotOver(g) == ~g.gameOver

Game_isRunning(g) == g.running /\ ~g.gameOver

Game_speedRamp_NoCap(currentSpeed, deltaTime) ==
    currentSpeed + Quot(GAME_SPEED_INCREASE_RATE * deltaTime, 1000)

Game_speedRamp(currentSpeed, deltaTime) ==
    Min(MAX_GAME_SPEED,
        currentSpeed + Quot(GAME_SPEED_INCREASE_RATE * deltaTime, 1000))

Game_scoreGain_BySpeed(currentSpeed, deltaTime) ==
    MulDiv(currentSpeed, deltaTime, 1000)

\* deltaTime * SCORE_RATE; the speed plays no part
Game_scoreGain(currentSpeed, deltaTime) == deltaTime * SCORE_RATE

\* the part of _update after the running checks: one simulation tick
Game_tick(w, deltaTime, lane) ==
    LET speed == Game_speedRamp(w.game.currentSpeed, deltaTime)
        p == Player_update(w.player, deltaTime)
        lm == Lava_update(w.lava, deltaTime, p.z, speed, lane)
        hit == Lava_checkCollision(lm, p)
        w1 == [w EXCEPT !.game.currentSpeed = speed,
                        !.player = p,
                        !.lava = lm,
                        !.game.score = @ + Game_scoreGain(speed, deltaTime),
                        !.hitLava = hit]
    IN  IF hit
        THEN Game_stopGameLoop([w1 EXCEPT !.game.gameOver = TRUE,
                                          !.game.running = FALSE])
        ELSE w1

\* _update: the frame is requested first; clock.getDelta() hands out the time
\* since the previous getDelta
Game_update(w, lane) ==
    LET r == requestAnimationFrame(w, "update")
        w1 == [r EXCEPT !.game.animationId = Last(r.raf).id]
    IN  IF ~w1.game.running \/ w1.game.gameOver
        THEN Game_stopGameLoop(w1)
        ELSE Game_tick([w1 EXCEPT !.frameDelta = 0], w1.frameDelta, lane)

\* the callback start() defers to the next animation frame; clock.start()
\* leaves no time for the getDelta of the _update it calls
Game_startCallback(w, lane) ==
    LET w1 == Game_resetGameState(w)
        w2 == [w1 EXCEPT !.game.running = TRUE, !.game.gameOver = FALSE,
                         !.frameDelta = 0]
    IN  Game_update(w2, lane)

----------------------------------------------------------------------------
(* main: keyboard and pose handlers *)

LANE_LEFT_BOUND == 350
LANE_RIGHT_BOUND == 650

\* the keys a player may press: the four of the switch and others
KeyboardKeys == {"ArrowLeft", "a", "ArrowRight", "d", "ArrowUp", "w", " ", "Enter"}

Main_handleKeyDown(w, key) ==
    IF Game_isRunning(w.game)
    THEN IF key \in {"ArrowLeft", "a"}
         THEN [w EXCEPT !.player = Player_setTargetLane(@, w.player.targetLane - 1)]
         ELSE IF key \in {"ArrowRight", "d"}
         THEN [w EXCEPT !.player = Player_setTargetLane(@, w.player.targetLane + 1)]
         ELSE w
    ELSE w

Main_poseLane(normX) ==
    LET mirroredNormX == 1000 - normX IN
    IF mirroredNormX < LANE_LEFT_BOUND THEN 0
    ELSE IF mirroredNormX > LANE_RIGHT_BOUND THEN 2
    ELSE 1

\* the jump detection without the move of the baseline after a jump
Main_poseJump_NoNudge(pp, normShoulderY) ==
    LET t == IF pp.pose.poseJumpCooldownTimer > 0
             THEN pp.pose.poseJumpCooldownTimer - POSE_COOLDOWN_STEP
             ELSE pp.pose.poseJumpCooldownTimer
        rest == IF pp.pose.restingShoulderY = NoBaseline
                   /\ normShoulderY > 0 /\ normShoulderY < 1000
                THEN normShoulderY
                ELSE pp.pose.restingShoulderY
        pp1 == [pp EXCEPT !.pose.poseJumpCooldownTimer = t,
                          !.pose.restingShoulderY = rest]
    IN  IF rest # NoBaseline /\ t <= 0 /\ rest - normShoulderY > JUMP_DETECTION_THRESHOLD
        THEN [pp1 EXCEPT !.player = Player_jump(@),
                         !.pose.poseJumpCooldownTimer = POSE_JUMP_COOLDOWN]
        ELSE pp1

\* the jump detection of handlePoseUpdate on [player, pose]
Main_poseJump(pp, normShoulderY) ==
    LET t == IF pp.pose.poseJumpCooldownTimer > 0
             THEN pp.pose.poseJumpCooldownTimer - POSE_COOLDOWN_STEP
             ELSE pp.pose.poseJumpCooldownTimer
        rest == IF pp.pose.restingShoulderY = NoBaseline
                   /\ normShoulderY > 0 /\ normShoulderY < 1000
                THEN normShoulderY
                ELSE pp.pose.restingShoulderY
        pp1 == [pp EXCEPT !.pose.poseJumpCooldownTimer = t,
                          !.pose.restingShoulderY = rest]
    IN  IF rest # NoBaseline /\ t <= 0
        THEN IF rest - normShoulderY > JUMP_DETECTION_THRESHOLD
             THEN [pp1 EXCEPT
                     !.player = Player_jump(@),
                     !.pose.poseJumpCooldownTimer = POSE_JUMP_COOLDOWN,
                     !.pose.restingShoulderY =
                         normShoulderY + JUMP_DETECTION_THRESHOLD \div 2]
             ELSE IF normShoulderY > rest + JUMP_DETECTION_THRESHOLD \div 2
                     /\ ~pp1.player.isJumping
                  THEN [pp1 EXCEPT !.pose.restingShoulderY =
                                       Quot(rest * 99 + normShoulderY, 100)]
                  ELSE pp1
        ELSE pp1

Main_handlePoseUpdate(pp, g, normX, normShoulderY) ==
    IF Game_isRunning(g)
    THEN Main_poseJump(
             [pp EXCEPT !.player = Player_setTargetLane(@, Main_poseLane(normX))],
             normShoulderY)
    ELSE pp

Main_resetGameSession(po) ==
    [po EXCEPT !.restingShoulderY = NoBaseline, !.poseJumpCooldownTimer = 0]

----------------------------------------------------------------------------
(* Spec: the Game with its frame callbacks and the input handlers *)

MaxTicks == 1
MaxStarts == 2
MaxSamples == 1
FrameDTs == {1000, 7100}
PoseXs == {200}
PoseYs == {400, 500}
Keys == {"ArrowLeft", "ArrowRight"}

\* no frame is in progress: events and clicks are handled between frames
Idle == frameLeft = 0

\* a click handler of main: resetGameSession() and game.start()
StartSession(maxStarts) ==
    /\ Idle
    /\ starts < maxStarts
    /\ SetWorld(Game_start(World))
    /\ pose' = Main_resetGameSession(pose)
    /\ samples' = 0
    /\ starts' = starts + 1
    /\ ended' = "no"
    /\ UNCHANGED <<mplayer, tracker, page, ticks, lastOp>>

Start == StartSession(MaxStarts)

Stop ==
    /\ Idle
    /\ SetWorld(Game_stop(World))
    /\ ended' = "stop"
    /\ UNCHANGED <<mplayer, tracker, page, pose, ticks, starts, samples, lastOp>>

\* the time since the previous getDelta that the next callback may find: the
\* first callback of a frame finds the time that passed since the last frame
FrameDeltas(deltas) == IF Idle THEN deltas ELSE {frameDelta}

\* the next pending callback is taken off the queue
BeginCallback(deltaTime) ==
    [World EXCEPT !.raf = Tail(@),
                  !.frameLeft = IF Idle THEN Len(raf) - 1 ELSE @ - 1,
                  !.frameDelta = deltaTime]

\* between frames the clock's reading is whatever the next frame draws
EndCallback(w) == [w EXCEPT !.frameDelta = IF w.frameLeft = 0 THEN 0 ELSE @]

\* the callback that start() deferred
StartCallback(lane) ==
    /\ raf # <<>>
    /\ Head(raf).kind = "start"
    /\ SetWorld(EndCallback(Game_startCallback(BeginCallback(frameDelta), lane)))
    /\ ticks' = 0
    /\ UNCHANGED <<mplayer, tracker, page, pose, starts, samples, ended, lastOp>>

\* a frame callback of the loop: _update
UpdateCallback(deltaTime, lane, maxTicks) ==
    /\ raf # <<>>
    /\ Head(raf).kind = "update"
    /\ Game_isRunning(game) => ticks < maxTicks
    /\ SetWorld(EndCallback(Game_update(BeginCallback(deltaTime), lane)))
    /\ ticks' = IF Game_isRunning(game) THEN ticks + 1 ELSE ticks
    /\ ended' = IF ended = "no" /\ Game_isRunning(game) /\ game'.gameOver
                THEN "collision" ELSE ended
    /\ UNCHANGED <<mplayer, tracker, page, pose, starts, samples, lastOp>>

RunFrame(deltas, maxTicks) ==
    \/ \E lane \in Lanes : StartCallback(lane)
    \/ \E deltaTime \in FrameDeltas(deltas), lane \in Lanes :
           UpdateCallback(deltaTime, lane, maxTicks)

RunCallback == RunFrame(FrameDTs, MaxTicks)

KeyDown(key) ==
    /\ Idle
    /\ SetWorld(Main_handleKeyDown(World, key))
    /\ UNCHANGED <<mplayer, tracker, page, pose, ticks, starts, samples, ended, lastOp>>

PoseUpdate(normX, normShoulderY) ==
    /\ Idle
    /\ samples < MaxSamples
    /\ LET pp == Main_handlePoseUpdate([player |-> player, pose |-> pose], game,
                                       normX, normShoulderY)
       IN  /\ player' = pp.player
           /\ pose' = pp.pose
    /\ samples' = samples + 1
    /\ UNCHANGED <<mplayer, tracker, page, lava, game, raf, frameLeft, frameDelta, hitLava, ticks, starts,
                   ended, lastOp>>

\* the sprite texture finishes loading (or fails): the Player resets itself
TextureLoaded ==
    /\ Idle
    /\ ~player.modelLoaded
    /\ player' = [Player_reset(player) EXCEPT !.modelLoaded = TRUE]
    /\ UNCHANGED <<mplayer, tracker, page, lava, game, raf, frameLeft, frameDelta, pose, hitLava, ticks,
                   starts, samples, ended, lastOp>>

Next ==
    \/ Start
    \/ Stop
    \/ RunCallback
    \/ \E key \in Keys : KeyDown(key)
    \/ \E normX \in PoseXs, normShoulderY \in PoseYs : PoseUpdate(normX, normShoulderY)
    \/ TextureLoaded

Spec == InitCommon /\ [][Next]_vars

----------------------------------------------------------------------------
(* SpecRun: the Game over long sessions: more ticks, and frames that come
   after the page was in the background for two minutes *)

MaxRunTicks == 5
MaxRunStarts == 1
RunDTs == {1000, 125000}

RunStart == StartSession(MaxRunStarts)

RunLongCallback == RunFrame(RunDTs, MaxRunTicks)

NextRun ==
    \/ RunStart
    \/ Stop
    \/ RunLongCallback

SpecRun == InitCommon /\ [][NextRun]_vars

----------------------------------------------------------------------------
(* SpecLanes: one or more sessions played with keys and pose samples from
   every lane zone, with enough frames for the player to settle in a lane *)

MaxLaneTicks == 3
MaxLaneStarts == 2
LaneDTs == {1000}
LanePoseXs == {200, 500, 800}
LanePoseYs == {500}

LaneStart == StartSession(MaxLaneStarts)

LaneCallback == RunFrame(LaneDTs, MaxLaneTicks)

NextLanes ==
    \/ LaneStart
    \/ LaneCallback
    \/ \E key \in Keys : KeyDown(key)
    \/ \E normX \in LanePoseXs, normShoulderY \in LanePoseYs :
           PoseUpdate(normX, normShoulderY)

SpecLanes == InitCommon /\ [][NextLanes]_vars

----------------------------------------------------------------------------
(* SpecPlayer: the Player driven directly through its methods *)

PlayerDTs == {0, 20, 1000}
LaneArgs == -1..3

P_SetTargetLane(laneIndex) ==
    /\ player' = Player_setTargetLane(player, laneIndex)
    /\ lastOp' = Op("setTargetLane", laneIndex)
    /\ UNCHANGED <<mplayer, tracker, page, lava, game, raf, frameLeft, frameDelta, pose, hitLava, ticks, starts, samples, ended>>

P_Jump ==
    /\ player' = Player_jump(player)
    /\ lastOp' = Op("jump", 0)
    /\ UNCHANGED <<mplayer, tracker, page, lava, game, raf, frameLeft, frameDelta, pose, hitLava, ticks, starts, samples, ended>>

P_Reset ==
    /\ player' = Player_reset(player)
    /\ lastOp' = Op("reset", 0)
    /\ UNCHANGED <<mplayer, tracker, page, lava, game, raf, frameLeft, frameDelta, pose, hitLava, ticks, starts, samples, ended>>

P_Update(deltaTime) ==
    /\ player' = Player_update(player, deltaTime)
    /\ lastOp' = Op("update", deltaTime)
    /\ UNCHANGED <<mplayer, tracker, page, lava, game, raf, frameLeft, frameDelta, pose, hitLava, ticks, starts, samples, ended>>

NextPlayer ==
    \/ \E laneIndex \in LaneArgs : P_SetTargetLane(laneIndex)
    \/ P_Jump
    \/ P_Reset
    \/ \E deltaTime \in PlayerDTs : P_Update(deltaTime)

SpecPlayer == InitCommon /\ [][NextPlayer]_vars

----------------------------------------------------------------------------
(* SpecJump: the Player's jump under frames that keep coming: updates with
   dt > 0 go on for ever *)

JumpDTs == {0, 20, 400, 1000}

PositiveUpdate == \E deltaTime \in JumpDTs \ {0} : P_Update(deltaTime)

NextJump ==
    \/ P_Jump
    \/ P_Reset
    \/ \E deltaTime \in JumpDTs : P_Update(deltaTime)

SpecJump == InitCommon /\ [][NextJump]_vars /\ WF_vars(PositiveUpdate)

----------------------------------------------------------------------------
(* SpecCollision: checkCollision applied to sampled player and hazard states *)

MaxHazardSamples == 2

HalfHitWidth == ((LANE_WIDTH \div 2) * 9) \div 10

\* x: each lane, the midpoint between two lanes, and both sides of the edge
\* of the middle lane's hit range
XSamples ==
    {LaneX(0), LaneX(1), LaneX(2), LaneX(0) \div 2,
     LaneX(1) - HalfHitWidth, LaneX(1) - HalfHitWidth + 1}

\* hazard z: outside, on the two ends of, and inside the player's z range
ZSamples ==
    {PLAYER_START_Z - PLATFORM_DEPTH \div 2 - 1, PLAYER_START_Z - PLATFORM_DEPTH \div 2,
     PLAYER_START_Z, PLAYER_START_Z + PLATFORM_DEPTH \div 2,
     PLAYER_START_Z + PLATFORM_DEPTH \div 2 + 1}

\* jumpTimer of a jump in flight after an update: below, across and above the
\* clearance height, at the apex and on the way down
JumpTimerSamples == {20, 40, 600, 1160, 1180}

PlayerSamples ==
    {[NewPlayer EXCEPT !.x = x, !.y = b] : x \in XSamples, b \in BounceOffsets}
    \cup {[NewPlayer EXCEPT !.x = x, !.y = b, !.isJumping = TRUE] :
              x \in XSamples, b \in BounceOffsets}
    \cup {[NewPlayer EXCEPT !.x = x, !.isJumping = TRUE, !.jumpTimer = t,
                            !.y = JumpArc(t)] :
              x \in XSamples, t \in JumpTimerSamples}

HazardSamples ==
    UNION {[1..n -> Lanes \X ZSamples] : n \in 0..MaxHazardSamples}

\* the LavaManager holding the hazards hs, each spawned with its emitter
RECURSIVE LavaWith(_, _)
LavaWith(hs, n) ==
    IF n = 0 THEN NewLavaManager
    ELSE Lava_spawnLava(LavaWith(hs, n - 1), hs[n][2], hs[n][1])

InitCollision ==
    /\ mplayer = NewMPlayer
    /\ tracker = NewPoseTracker
    /\ page = NewPage
    /\ player \in PlayerSamples
    /\ \E hs \in HazardSamples : lava = LavaWith(hs, Len(hs))
    /\ game = NewGame
    /\ raf = <<>>
    /\ frameLeft = 0
    /\ frameDelta = 0
    /\ pose = NewPose
    /\ hitLava = FALSE
    /\ lastOp = Op("init", 0)
    /\ ticks = 0
    /\ starts = 0
    /\ samples = 0
    /\ ended = "no"

CheckCollision ==
    /\ lastOp.op = "init"
    /\ hitLava' = Lava_checkCollision(lava, player)
    /\ lastOp' = Op("checkCollision", 0)
    /\ UNCHANGED <<mplayer, tracker, page, player, lava, game, raf, frameLeft, frameDelta, pose, ticks, starts, samples, ended>>

NextCollision == CheckCollision

SpecCollision == InitCollision /\ [][NextCollision]_vars

----------------------------------------------------------------------------
(* SpecLava: the LavaManager driven directly through update and reset *)

MaxMeshes == 2
LavaDTs == {0, 2000, 8000}
LavaSpeeds == {10000}

L_Update(deltaTime, currentSpeed, lane) ==
    LET lm == Lava_update(lava, deltaTime, PLAYER_START_Z, currentSpeed, lane) IN
    /\ Len(lm.meshes) <= MaxMeshes
    /\ lava' = lm
    /\ lastOp' = Op("update", deltaTime)
    /\ UNCHANGED <<mplayer, tracker, page, player, game, raf, frameLeft, frameDelta, pose, hitLava, ticks, starts, samples, ended>>

L_Reset ==
    /\ lava' = Lava_reset(lava)
    /\ lastOp' = Op("reset", 0)
    /\ UNCHANGED <<mplayer, tracker, page, player, game, raf, frameLeft, frameDelta, pose, hitLava, ticks, starts, samples, ended>>

NextLava ==
    \/ \E deltaTime \in LavaDTs, currentSpeed \in LavaSpeeds, lane \in Lanes :
           L_Update(deltaTime, currentSpeed, lane)
    \/ L_Reset

SpecLava == InitCommon /\ [][NextLava]_vars

----------------------------------------------------------------------------
(* SpecPoseHold: handlePoseUpdate under a pose signal that drops below an
   established baseline and holds, in a running session; frames may tick the
   player between the samples *)

MaxHoldSamples == 45
HoldBaselines == {500, 600}
HoldYs == {400, 430}
HoldDTs == {400}

InitPoseHold ==
    /\ mplayer = NewMPlayer
    /\ tracker = NewPoseTracker
    /\ page = NewPage
    /\ player = NewPlayer
    /\ lava = NewLavaManager
    /\ game = [NewGame EXCEPT !.running = TRUE]
    /\ raf = <<>>
    /\ frameLeft = 0
    /\ frameDelta = 0
    /\ \E b \in HoldBaselines :
         pose = [restingShoulderY |-> b, poseJumpCooldownTimer |-> 0]
    /\ hitLava = FALSE
    /\ lastOp = Op("init", 0)
    /\ ticks = 0
    /\ starts = 0
    /\ samples = 0
    /\ ended = "no"

\* a sample of the held signal: the same shoulderY as the sample before
H_Sample(normX, normShoulderY) ==
    /\ samples < MaxHoldSamples
    /\ lastOp.op = "pose" => normShoulderY = lastOp.arg
    /\ lastOp.op = "init" =>
           pose.restingShoulderY - normShoulderY > JUMP_DETECTION_THRESHOLD
    /\ LET pp == Main_handlePoseUpdate([player |-> player, pose |-> pose], game,
                                       normX, normShoulderY)
       IN  /\ player' = pp.player
           /\ pose' = pp.pose
    /\ samples' = samples + 1
    /\ lastOp' = Op("pose", normShoulderY)
    /\ UNCHANGED <<mplayer, tracker, page, lava, game, raf, frameLeft, frameDelta, hitLava, ticks, starts,
                   ended>>

\* a frame between two samples: the player is updated
H_Tick(deltaTime) ==
    /\ lastOp.op = "pose"
    /\ player' = Player_update(player, deltaTime)
    /\ UNCHANGED <<mplayer, tracker, page, lava, game, raf, frameLeft, frameDelta, pose, hitLava, lastOp,
                   ticks, starts, samples, ended>>

NextPoseHold ==
    \/ \E normShoulderY \in HoldYs : H_Sample(500, normShoulderY)
    \/ \E deltaTime \in HoldDTs : H_Tick(deltaTime)

SpecPoseHold == InitPoseHold /\ [][NextPoseHold]_vars

----------------------------------------------------------------------------
(* PoseTracker (src/unnamed/part_000).  detectForVideo calls its callback
   before it returns, with a result that has landmarks or none. *)

\* one call of _predictWebcam that processes every iteration anew
PoseTracker_predictWebcam_NoSkip(tr, hasLandmarks) ==
    IF ~tr.webcamRunning
    THEN [tracker |-> tr, detect |-> FALSE, callback |-> FALSE]
    ELSE [tracker |-> [tr EXCEPT !.lastVideoTime = tr.currentTime,
                                 !.pending = @ + 1],
          detect |-> TRUE, callback |-> hasLandmarks]

\* one call of _predictWebcam: the tracker after it, whether detectForVideo
\* was called, and whether onPoseUpdateCallback was called
PoseTracker_predictWebcam(tr, hasLandmarks) ==
    IF ~tr.webcamRunning
    THEN [tracker |-> tr, detect |-> FALSE, callback |-> FALSE]
    ELSE LET fresh == tr.lastVideoTime # tr.currentTime
             seen == IF fresh
                     THEN [tr EXCEPT !.lastVideoTime = tr.currentTime]
                     ELSE tr
         IN  [tracker |-> [seen EXCEPT !.pending = @ + 1],
              detect |-> fresh, callback |-> fresh /\ hasLandmarks]

\* what a call returns: the tracker after it and the message of the error
\* it threw, "none" when it returned
Returned(tr) == [tracker |-> tr, thrown |-> "none"]
Threw(tr, message) == [tracker |-> tr, thrown |-> message]

\* enableCam() that logs a refused camera and returns
PoseTracker_enableCam_Swallow(tr, granted) ==
    IF tr.poseLandmarker = Null \/ tr.webcamRunning
    THEN Returned(tr)
    ELSE IF granted
         THEN Returned([tr EXCEPT !.listening = TRUE, !.webcamRunning = TRUE])
         ELSE Returned(tr)

\* enableCam(), getUserMedia granting the camera or refusing it
PoseTracker_enableCam(tr, granted) ==
    IF tr.poseLandmarker = Null \/ tr.webcamRunning
    THEN Returned(tr)
    ELSE IF granted
         THEN Returned([tr EXCEPT !.listening = TRUE, !.webcamRunning = TRUE])
         ELSE Threw(tr, "Webcam access denied or failed")

\* initialize() from one await to the next: the wasm files resolve or not,
\* the landmarker is created or not, enableCam() returns or throws; the
\* catch of initialize() throws its own error for any of them
PoseTracker_initialize(tr, at, ok) ==
    IF at = "vision"
    THEN IF ok THEN Returned(tr)
         ELSE Threw(tr, "Could not initialize pose detection")
    ELSE IF at = "landmarker"
    THEN IF ok THEN Returned([tr EXCEPT !.poseLandmarker = Landmarker])
         ELSE Threw(tr, "Could not initialize pose detection")
    ELSE IF PoseTracker_enableCam(tr, ok).thrown = "none"
         THEN PoseTracker_enableCam(tr, ok)
         ELSE Threw(PoseTracker_enableCam(tr, ok).tracker,
                    "Could not initialize pose detection")

\* initializeGame() up to its first await
Main_initializeGame(pg) ==
    [pg EXCEPT !.startStatusText = "Setting up", !.initializing = "vision"]

\* initializeGame() resumed by the await it stands at: on to the next
\* await, to the end of the try block, or into the catch block
Main_initializeResumed(w, pg, r) ==
    IF r.thrown # "none"
    THEN [world |-> IF pg.gameCreated THEN Game_stop(w) ELSE w,
          page |-> [pg EXCEPT !.startStatusText = "Error",
                              !.startDisabled = TRUE,
                              !.initializing = "done",
                              !.initError = r.thrown]]
    ELSE IF pg.initializing = "camera"
    THEN [world |-> w,
          page |-> [pg EXCEPT !.startStatusText = "Ready",
                              !.startDisabled = FALSE,
                              !.initializing = "done"]]
    ELSE [world |-> w,
          page |-> [pg EXCEPT !.initializing =
                        IF @ = "vision" THEN "landmarker" ELSE "camera"]]

----------------------------------------------------------------------------
(* SpecTracker: the prediction loop of an initialized PoseTracker on a
   running game.  The camera produces frames, the browser runs the pending
   _predictWebcam callbacks, and a loadeddata event starts another chain of
   them.  samples counts the callbacks delivered; lastOp is the outcome of
   the last iteration, with the sample it delivered. *)

MaxVideoTime == 2
MaxChains == 1
TrackXs == {200, 800}
TrackYs == {400, 500}

InitTracker ==
    /\ mplayer = NewMPlayer
    /\ tracker = [NewPoseTracker EXCEPT !.poseLandmarker = Landmarker,
                                        !.webcamRunning = TRUE,
                                        !.listening = TRUE]
    /\ page = [NewPage EXCEPT !.startDisabled = FALSE,
                              !.startStatusText = "Ready",
                              !.gameCreated = TRUE]
    /\ player = NewPlayer
    /\ lava = NewLavaManager
    /\ game = [NewGame EXCEPT !.running = TRUE]
    /\ raf = <<>>
    /\ frameLeft = 0
    /\ frameDelta = 0
    /\ pose = NewPose
    /\ hitLava = FALSE
    /\ lastOp = Op("init", <<>>)
    /\ ticks = 0
    /\ starts = 0
    /\ samples = 0
    /\ ended = "no"

\* the camera shows its next frame
T_VideoFrame ==
    /\ tracker.currentTime < MaxVideoTime
    /\ tracker' = [tracker EXCEPT !.currentTime = @ + 1]
    /\ UNCHANGED <<mplayer, page, player, lava, game, raf, frameLeft, frameDelta, pose,
                   hitLava, lastOp, ticks, starts, samples, ended>>

\* one iteration of the loop, from the tracker tr: the callback, when it is
\* called, runs handlePoseUpdate before the iteration returns
T_Iteration(tr, hasLandmarks, normX, normShoulderY) ==
    LET r == PoseTracker_predictWebcam(tr, hasLandmarks)
        pp == IF r.callback
              THEN Main_handlePoseUpdate([player |-> player, pose |-> pose],
                                         game, normX, normShoulderY)
              ELSE [player |-> player, pose |-> pose]
    IN  /\ tracker' = r.tracker
        /\ player' = pp.player
        /\ pose' = pp.pose
        /\ samples' = IF r.callback THEN samples + 1 ELSE samples
        /\ lastOp' = IF r.callback THEN Op("pose", <<normX, normShoulderY>>)
                     ELSE IF r.detect THEN Op("empty", <<>>)
                     ELSE Op("skip", <<>>)
        /\ UNCHANGED <<mplayer, page, lava, game, raf, frameLeft, frameDelta, hitLava,
                       ticks, starts, ended>>

\* the video element fires loadeddata: the listener is _predictWebcam
T_LoadedData(hasLandmarks, normX, normShoulderY) ==
    /\ tracker.listening
    /\ tracker.pending < MaxChains
    /\ T_Iteration(tracker, hasLandmarks, normX, normShoulderY)

\* the browser runs a pending _predictWebcam callback
T_Predict(hasLandmarks, normX, normShoulderY) ==
    /\ tracker.pending > 0
    /\ T_Iteration([tracker EXCEPT !.pending = @ - 1], hasLandmarks, normX,
                   normShoulderY)

NextTracker ==
    \/ T_VideoFrame
    \/ \E hasLandmarks \in BOOLEAN, normX \in TrackXs, normShoulderY \in TrackYs :
         T_LoadedData(hasLandmarks, normX, normShoulderY)
    \/ \E hasLandmarks \in BOOLEAN, normX \in TrackXs, normShoulderY \in TrackYs :
         T_Predict(hasLandmarks, normX, normShoulderY)

SpecTracker == InitTracker /\ [][NextTracker]_vars

----------------------------------------------------------------------------
(* SpecInit: the page from the call of initializeGame() on.  Each await of
   the initialization succeeds or fails; the start button, once enabled, is
   clicked; frames run and keys are pressed. *)

MaxInitTicks == 3
InitDTs == {1000, 7100}

InitInit ==
    /\ mplayer = NewMPlayer
    /\ tracker = NewPoseTracker
    /\ page = Main_initializeGame(NewPage)
    /\ player = NewPlayer
    /\ lava = NewLavaManager
    /\ game = NewGame
    /\ raf = <<>>
    /\ frameLeft = 0
    /\ frameDelta = 0
    /\ pose = NewPose
    /\ hitLava = FALSE
    /\ lastOp = Op("init", 0)
    /\ ticks = 0
    /\ starts = 0
    /\ samples = 0
    /\ ended = "no"

\* the await that initializeGame() stands at is settled
I_Settled(ok) ==
    /\ Idle
    /\ page.initializing \in {"vision", "landmarker", "camera"}
    /\ LET r == PoseTracker_initialize(tracker, page.initializing, ok)
           m == Main_initializeResumed(World, page, r)
       IN  /\ tracker' = r.tracker
           /\ page' = m.page
           /\ SetWorld(m.world)
    /\ UNCHANGED <<mplayer, pose, lastOp, ticks, starts, samples, ended>>

\* a click on the start button, which a disabled button does not receive;
\* the handler hides the start screen, creates the Game and starts it
I_StartClick ==
    /\ Idle
    /\ ~page.startDisabled
    /\ ~page.gameCreated
    /\ page' = [page EXCEPT !.gameCreated = TRUE]
    /\ SetWorld(Game_start([World EXCEPT !.game = NewGame]))
    /\ pose' = Main_resetGameSession(pose)
    /\ samples' = 0
    /\ starts' = starts + 1
    /\ ended' = "no"
    /\ UNCHANGED <<mplayer, tracker, ticks, lastOp>>

I_RunCallback == RunFrame(InitDTs, MaxInitTicks)

NextInit ==
    \/ \E ok \in BOOLEAN : I_Settled(ok)
    \/ I_StartClick
    \/ I_RunCallback
    \/ \E key \in Keys : KeyDown(key)

SpecInit == InitInit /\ [][NextInit]_vars

----------------------------------------------------------------------------
(* SpecMove: a player settled in a lane gets one accepted setTargetLane and
   is then updated with one fixed deltaTime, which frameDelta holds; ticks
   counts the updates. *)

MaxMoveTicks == 260
MoveDTs == {1, 16, 20, 39, 40, 41, 1000}

InitMove ==
    /\ mplayer = NewMPlayer
    /\ tracker = NewPoseTracker
    /\ page = NewPage
    /\ player \in {[NewPlayer EXCEPT !.targetLane = lane, !.currentLane = lane,
                                     !.x = LaneX(lane)] : lane \in Lanes}
    /\ lava = NewLavaManager
    /\ game = NewGame
    /\ raf = <<>>
    /\ frameLeft = 0
    /\ frameDelta \in MoveDTs
    /\ pose = NewPose
    /\ hitLava = FALSE
    /\ lastOp = Op("init", 0)
    /\ ticks = 0
    /\ starts = 0
    /\ samples = 0
    /\ ended = "no"

M_SetTargetLane(laneIndex) ==
    /\ lastOp.op = "init"
    /\ Player_setTargetLane(player, laneIndex) # player
    /\ player' = Player_setTargetLane(player, laneIndex)
    /\ lastOp' = Op("setTargetLane", laneIndex)
    /\ UNCHANGED <<mplayer, tracker, page, lava, game, raf, frameLeft, frameDelta, pose,
                   hitLava, ticks, starts, samples, ended>>

M_Update ==
    /\ lastOp.op = "setTargetLane"
    /\ ticks < MaxMoveTicks
    /\ player' = Player_update(player, frameDelta)
    /\ ticks' = ticks + 1
    /\ UNCHANGED <<mplayer, tracker, page, lava, game, raf, frameLeft, frameDelta, pose,
                   hitLava, lastOp, starts, samples, ended>>

NextMove ==
    \/ \E laneIndex \in Lanes : M_SetTargetLane(laneIndex)
    \/ M_Update

SpecMove == InitMove /\ [][NextMove]_vars /\ WF_vars(M_Update)

----------------------------------------------------------------------------
(* SpecDrain: the LavaManager under ticks that keep coming: updates with
   dt > 0 go on for ever, at speeds between the initial and the maximal one *)

MaxDrainMeshes == 4
DrainDTs == {0, 3000}
DrainSpeeds == {INITIAL_GAME_SPEED, MAX_GAME_SPEED}
DrainLanes == {1}

D_Update(deltaTime, currentSpeed, lane) ==
    LET lm == Lava_update(lava, deltaTime, PLAYER_START_Z, currentSpeed, lane) IN
    /\ lastOp' = Op("update", deltaTime)
    /\ Len(lm.meshes) <= MaxDrainMeshes
    /\ lava' = lm
    /\ UNCHANGED <<mplayer, tracker, page, player, game, raf, frameLeft, frameDelta, pose,
                   hitLava, ticks, starts, samples, ended>>

D_PositiveUpdate ==
    \E deltaTime \in DrainDTs \ {0}, currentSpeed \in DrainSpeeds, lane \in DrainLanes :
        D_Update(deltaTime, currentSpeed, lane)

NextDrain ==
    \E deltaTime \in DrainDTs, currentSpeed \in DrainSpeeds, lane \in DrainLanes :
        D_Update(deltaTime, currentSpeed, lane)

SpecDrain == InitCommon /\ [][NextDrain]_vars /\ WF_vars(D_PositiveUpdate)

----------------------------------------------------------------------------
(* SpecPoseJump: handlePoseUpdate under a pose signal that moves freely, in a
   running session with an established baseline; frames may tick the player
   between the samples *)

MaxJumpSamples == 44
PoseJumpYs == {300, 400, 500}
PoseJumpDTs == {400}

InitPoseJump ==
    /\ mplayer = NewMPlayer
    /\ tracker = NewPoseTracker
    /\ page = NewPage
    /\ player = NewPlayer
    /\ lava = NewLavaManager
    /\ game = [NewGame EXCEPT !.running = TRUE]
    /\ raf = <<>>
    /\ frameLeft = 0
    /\ frameDelta = 0
    /\ pose = [restingShoulderY |-> 500, poseJumpCooldownTimer |-> 0]
    /\ hitLava = FALSE
    /\ lastOp = Op("init", 0)
    /\ ticks = 0
    /\ starts = 0
    /\ samples = 0
    /\ ended = "no"

J_Sample(normX, normShoulderY) ==
    /\ samples < MaxJumpSamples
    /\ LET pp == Main_handlePoseUpdate([player |-> player, pose |-> pose], game,
                                       normX, normShoulderY)
       IN  /\ player' = pp.player
           /\ pose' = pp.pose
    /\ samples' = samples + 1
    /\ UNCHANGED <<mplayer, tracker, page, lava, game, raf, frameLeft, frameDelta, hitLava,
                   lastOp, ticks, starts, ended>>

\* a frame between two samples: the player is updated
J_Tick(deltaTime) ==
    /\ player' = Player_update(player, deltaTime)
    /\ UNCHANGED <<mplayer, tracker, page, lava, game, raf, frameLeft, frameDelta, pose,
                   hitLava, lastOp, ticks, starts, samples, ended>>

NextPoseJump ==
    \/ \E normShoulderY \in PoseJumpYs : J_Sample(500, normShoulderY)
    \/ \E deltaTime \in PoseJumpDTs : J_Tick(deltaTime)

SpecPoseJump == InitPoseJump /\ [][NextPoseJump]_vars

----------------------------------------------------------------------------
(* SpecTwin: a sprite Player and an animated-model Player, both new, given
   the same calls with the same arguments *)

TwinDTs == {0, 20, 400, 1000}
TwinLanes == {0, 1, 2}

W_SetTargetLane(laneIndex) ==
    /\ player' = Player_setTargetLane(player, laneIndex)
    /\ mplayer' = MPlayer_setTargetLane(mplayer, laneIndex)
    /\ lastOp' = Op("setTargetLane", laneIndex)
    /\ UNCHANGED <<tracker, page, lava, game, raf, frameLeft, frameDelta, pose,
                   hitLava, ticks, starts, samples, ended>>

W_Jump ==
    /\ player' = Player_jump(player)
    /\ mplayer' = MPlayer_jump(mplayer)
    /\ lastOp' = Op("jump", 0)
    /\ UNCHANGED <<tracker, page, lava, game, raf, frameLeft, frameDelta, pose,
                   hitLava, ticks, starts, samples, ended>>

W_Reset ==
    /\ player' = Player_reset(player)
    /\ mplayer' = MPlayer_reset(mplayer)
    /\ lastOp' = Op("reset", 0)
    /\ UNCHANGED <<tracker, page, lava, game, raf, frameLeft, frameDelta, pose,
                   hitLava, ticks, starts, samples, ended>>

W_Update(deltaTime) ==
    /\ player' = Player_update(player, deltaTime)
    /\ mplayer' = MPlayer_update(mplayer, deltaTime)
    /\ lastOp' = Op("update", deltaTime)
    /\ UNCHANGED <<tracker, page, lava, game, raf, frameLeft, frameDelta, pose,
                   hitLava, ticks, starts, samples, ended>>

NextTwin ==
    \/ \E laneIndex \in TwinLanes : W_SetTargetLane(laneIndex)
    \/ W_Jump
    \/ W_Reset
    \/ \E deltaTime \in TwinDTs : W_Update(deltaTime)

SpecTwin == InitCommon /\ [][NextTwin]_vars

----------------------------------------------------------------------------
(* SpecApproach: a hazard in lane 1, 50 ahead of the player, advanced by
   LavaManager.update at speed 10 for 5 seconds cut into ticks in any way,
   and then checkCollision.  Here lastOp.arg of an update is the sum of the
   deltas so far. *)

ApproachDistance == 500000
ApproachSpeed == 10000
ApproachTime == 5000
ApproachDTs == {100, 500, 1000, 1700, 5000}

InitApproach ==
    /\ mplayer = NewMPlayer
    /\ tracker = NewPoseTracker
    /\ page = NewPage
    /\ player \in {[NewPlayer EXCEPT !.bounceTimer = b, !.y = BounceOffset(b)] :
                       b \in {0, 1}}
    /\ lava = Lava_spawnLava(NewLavaManager, PLAYER_START_Z - ApproachDistance, 1)
    /\ game = NewGame
    /\ raf = <<>>
    /\ frameLeft = 0
    /\ frameDelta = 0
    /\ pose = NewPose
    /\ hitLava = FALSE
    /\ lastOp = Op("update", 0)
    /\ ticks = 0
    /\ starts = 0
    /\ samples = 0
    /\ ended = "no"

A_Update(deltaTime, lane) ==
    /\ lastOp.op = "update"
    /\ lastOp.arg + deltaTime <= ApproachTime
    /\ lava' = Lava_update(lava, deltaTime, player.z, ApproachSpeed, lane)
    /\ lastOp' = Op("update", lastOp.arg + deltaTime)
    /\ UNCHANGED <<mplayer, tracker, page, player, game, raf, frameLeft, frameDelta, pose, hitLava, ticks,
                   starts, samples, ended>>

A_CheckCollision ==
    /\ lastOp = Op("update", ApproachTime)
    /\ hitLava' = Lava_checkCollision(lava, player)
    /\ lastOp' = Op("checkCollision", ApproachTime)
    /\ UNCHANGED <<mplayer, tracker, page, player, lava, game, raf, frameLeft, frameDelta, pose, ticks,
                   starts, samples, ended>>

NextApproach ==
    \/ \E deltaTime \in ApproachDTs, lane \in Lanes : A_Update(deltaTime, lane)
    \/ A_CheckCollision

SpecApproach == InitApproach /\ [][NextApproach]_vars

----------------------------------------------------------------------------
(* Claims *)

\* C1: a setTargetLane call made while the lane-change cooldown of an earlier
\* accepted call is still running changes nothing: targetLane, isOnCooldown
\* and cooldownTimer keep their values.  In particular setTargetLane(2) made
\* right after an accepted setTargetLane(0) leaves targetLane = 0.
C1_CooldownNoOp ==
    [][(lastOp'.op = "setTargetLane" /\ player.isOnCooldown)
         => /\ player'.targetLane = player.targetLane
            /\ player'.isOnCooldown = player.isOnCooldown
            /\ player'.cooldownTimer = player.cooldownTimer
            /\ (/\ lastOp = Op("setTargetLane", 0)
                /\ player.targetLane = 0
                /\ player.cooldownTimer = PLAYER_LANE_CHANGE_COOLDOWN
                /\ lastOp' = Op("setTargetLane", 2)
                => player'.targetLane = 0)]_vars

\* C1 witness: setTargetLane(2) has just been refused in the middle of the
\* cooldown that an accepted setTargetLane(0) started.
C1_Witness ==
    /\ lastOp = Op("setTargetLane", 2)
    /\ player.targetLane = 0
    /\ player.isOnCooldown
    /\ player.cooldownTimer > 0
    /\ player.cooldownTimer < PLAYER_LANE_CHANGE_COOLDOWN

ActiveMeshes == {lava.meshes[lava.lavaHazards[i]] : i \in 1..Len(lava.lavaHazards)}

C2_LaneOverlap(mesh) == Abs(player.x - LaneX(mesh.lane)) < HalfHitWidth
C2_ZOverlap(mesh) ==
    /\ mesh.z - PLATFORM_DEPTH \div 2 <= player.z
    /\ player.z <= mesh.z + PLATFORM_DEPTH \div 2
C2_Cleared == player.isJumping /\ player.y > JUMP_CLEARANCE_HEIGHT * YScale

\* C2: checkCollision returns true iff some active hazard overlaps the player
\* in lane and in z and the player is not jumping above the clearance height;
\* so it is false when no z-overlapping hazard is in the player's lane range and
\* false when the player is jumping above clearance, and a jumping player at
\* or below clearance is still hit.
C2_CollisionIff ==
    lastOp.op = "checkCollision" =>
        /\ hitLava = (\E mesh \in ActiveMeshes :
                        C2_LaneOverlap(mesh) /\ C2_ZOverlap(mesh) /\ ~C2_Cleared)
        /\ ((\A mesh \in ActiveMeshes : C2_ZOverlap(mesh) => ~C2_LaneOverlap(mesh))
              => ~hitLava)
        /\ (C2_Cleared => ~hitLava)
        /\ ((\E mesh \in ActiveMeshes : C2_LaneOverlap(mesh) /\ C2_ZOverlap(mesh))
              /\ player.isJumping /\ player.y <= JUMP_CLEARANCE_HEIGHT * YScale
              => hitLava)

\* C2 witness: checkCollision has returned true for a player that is jumping,
\* but not above the clearance height, over a hazard in its lane and z range.
C2_Witness ==
    /\ lastOp.op = "checkCollision"
    /\ hitLava
    /\ player.isJumping
    /\ player.jumpTimer > 0
    /\ \E mesh \in ActiveMeshes : C2_LaneOverlap(mesh) /\ C2_ZOverlap(mesh)

MeshIds == 1..Len(lava.meshes)
IsActive(h) == h \in Range(lava.lavaHazards)
IsPooled(h) == h \in Range(lava.pool)

\* every hazard ever constructed is exactly once in the pool or exactly once
\* in the active list, and never in both
C3_Partition ==
    \A h \in MeshIds :
        Count(lava.pool, h) + Count(lava.lavaHazards, h) = 1

\* C3: under any sequence of update and reset calls a hazard is never twice in
\* the pool, never twice in the active list and never in both, and a hazard
\* that leaves the active list has been pushed to the pool exactly once.
C3_HazardLifecycle ==
    [][/\ C3_Partition'
       /\ \A h \in MeshIds :
            (IsActive(h) /\ ~IsActive(h)')
                => /\ Count(lava.pool, h) = 0
                   /\ Count(lava'.pool, h) = 1]_vars

\* C3 witness: the only hazard ever constructed is active for the second time
\* since the last reset (two spawns have lowered the interval twice), so it
\* went Pooled -> Active -> Pooled -> Active.
C3_Witness ==
    /\ lastOp.op = "update"
    /\ Len(lava.meshes) = 1
    /\ lava.lavaHazards = <<1>>
    /\ lava.pool = <<>>
    /\ lava.spawnInterval = INITIAL_SPAWN_INTERVAL - 2 * SPAWN_INTERVAL_DECREMENT

\* C4: spawnInterval stays within [MIN_SPAWN_INTERVAL, INITIAL_SPAWN_INTERVAL];
\* an update never raises it, and lowers it only in a tick that spawns, by
\* SPAWN_INTERVAL_DECREMENT and not below the floor.
C4_SpawnInterval ==
    [][/\ MIN_SPAWN_INTERVAL <= lava'.spawnInterval
       /\ lava'.spawnInterval <= INITIAL_SPAWN_INTERVAL
       /\ lastOp'.op = "update" =>
            /\ lava'.spawnInterval <= lava.spawnInterval
            /\ lava'.spawnInterval # lava.spawnInterval =>
                 /\ lava.spawnTimer + lastOp'.arg >= lava.spawnInterval
                 /\ lava'.spawnTimer = 0
                 /\ lava'.spawnInterval =
                      Max(MIN_SPAWN_INTERVAL,
                          lava.spawnInterval - SPAWN_INTERVAL_DECREMENT)]_vars

\* C4 witness: a spawning update has lowered the interval onto its floor.
C4_Witness ==
    /\ lastOp.op = "update"
    /\ lava.spawnTimer = 0
    /\ lava.spawnInterval = MIN_SPAWN_INTERVAL

----------------------------------------------------------------------------
(* Claims about the Game *)

\* score and currentSpeed, and the hazard and emitter lists and pools
Frozen == <<game.score, game.currentSpeed>>
Pools ==
    <<lava.lavaHazards, lava.pool, lava.particleManager.particleSystems,
      lava.particleManager.pool>>

\* a step that is a simulation tick of a frame callback with delta deltaTime
Tick(deltas, maxTicks, deltaTime) ==
    /\ Game_isRunning(game)
    /\ deltaTime \in FrameDeltas(deltas)
    /\ \E lane \in Lanes : UpdateCallback(deltaTime, lane, maxTicks)

\* C5: once gameOver has become true (by a collision or by stop()), no step
\* changes score or currentSpeed until start() is called again.
C5_FrozenOnceGameOver ==
    [][(ended # "no" /\ ended' # "no") => Frozen' = Frozen]_vars

\* C6: a tick with delta dt while running && !gameOver raises score by
\* exactly dt * SCORE_RATE, whatever the speed, the player and the hazards;
\* so five ticks of one second raise it by 5 * SCORE_RATE.
C6_ScoreRate ==
    [][\A deltaTime \in RunDTs \cup {0} :
          Tick(RunDTs, MaxRunTicks, deltaTime)
              => game'.score = game.score + deltaTime * SCORE_RATE]_vars

\* C6 witness: the session is running after five ticks of one second, none of
\* which hit a hazard, with a score of 5 * SCORE_RATE points.
C6_Witness ==
    /\ Game_isRunning(game)
    /\ ticks = 5
    /\ game.score = 5 * SCORE_RATE * 1000
    /\ game.currentSpeed = INITIAL_GAME_SPEED + 5 * GAME_SPEED_INCREASE_RATE

\* C7: INITIAL_GAME_SPEED <= currentSpeed <= MAX_GAME_SPEED always; a tick
\* with delta dt adds GAME_SPEED_INCREASE_RATE * dt up to the cap, and only
\* the reset of a start callback lowers currentSpeed.
C7_SpeedBounds ==
    [][/\ game.currentSpeed \in INITIAL_GAME_SPEED..MAX_GAME_SPEED
       /\ game'.currentSpeed \in INITIAL_GAME_SPEED..MAX_GAME_SPEED
       /\ \A deltaTime \in RunDTs \cup {0} :
            Tick(RunDTs, MaxRunTicks, deltaTime)
                => game'.currentSpeed =
                     Min(MAX_GAME_SPEED,
                         game.currentSpeed
                           + (GAME_SPEED_INCREASE_RATE * deltaTime) \div 1000)
       /\ \/ game'.currentSpeed >= game.currentSpeed
          \/ \E lane \in Lanes : StartCallback(lane)]_vars

\* C7 witness: a running session whose speed has reached the cap in a tick
\* that would have taken it beyond.
C7_Witness ==
    /\ Game_isRunning(game)
    /\ ticks >= 1
    /\ game.currentSpeed = MAX_GAME_SPEED
    /\ game.score >= 125000 * SCORE_RATE

\* C8: from stop() until the next start() call no tick executes, the Game is
\* not running, and score, currentSpeed, the hazard list and pool and the
\* emitter list and pool do not change.
C8_StoppedUntilStart ==
    [][(ended = "stop" /\ ended' = "stop")
          => /\ ~Game_isRunning(game')
             /\ ticks' = ticks
             /\ Frozen' = Frozen
             /\ Pools' = Pools]_vars

\* C9: the callback of start() that enables ticking leaves the session reset,
\* whatever came before: player in lane 1 without cooldown or jump,
\* currentSpeed = INITIAL_GAME_SPEED, score = 0, spawnInterval =
\* INITIAL_SPAWN_INTERVAL, gameOver = false, running = true, no hazard and no
\* emitter active, every hazard and emitter ever made in its pool.
C9_ResetBeforeTicking ==
    [][(\E lane \in Lanes : StartCallback(lane))
          => /\ game'.running /\ ~game'.gameOver
             /\ player'.targetLane = 1 /\ player'.currentLane = 1
             /\ ~player'.isOnCooldown /\ player'.cooldownTimer = 0
             /\ ~player'.isJumping
             /\ player'.x = LaneX(1)
             /\ game'.currentSpeed = INITIAL_GAME_SPEED
             /\ game'.score = 0
             /\ lava'.spawnInterval = INITIAL_SPAWN_INTERVAL
             /\ lava'.lavaHazards = <<>>
             /\ lava'.particleManager.particleSystems = <<>>
             /\ Range(lava'.pool) = 1..Len(lava'.meshes)
             /\ Range(lava'.particleManager.pool)
                    = 1..Len(lava'.particleManager.systems)
             /\ Len(lava'.pool) = Len(lava'.meshes)
             /\ Len(lava'.particleManager.pool)
                    = Len(lava'.particleManager.systems)]_vars

\* C9 witness: the second session has just been enabled, the hazard and the
\* emitter of the first session are back in their pools.
C9_Witness ==
    /\ starts = 2
    /\ ticks = 0
    /\ Game_isRunning(game)
    /\ lava.pool # <<>>
    /\ lava.particleManager.pool # <<>>
    /\ lava.lavaHazards = <<>>

\* C10 as stated: right after stop() no hazard and no emitter is active.
C10_StopReleasesAll ==
    [][Stop => /\ lava'.lavaHazards = <<>>
               /\ lava'.particleManager.particleSystems = <<>>]_vars

\* C10 amended: stop() leaves the LavaManager, its lists and pools included,
\* as it is; the active hazards and emitters are released by the reset that
\* the callback of the next start() runs, so the fresh session starts clean.
C10_StopKeepsPools ==
    [][/\ Stop => lava' = lava
       /\ (\E lane \in Lanes : StartCallback(lane))
             => /\ lava'.lavaHazards = <<>>
                /\ lava'.particleManager.particleSystems = <<>>
                /\ Range(lava.lavaHazards) \subseteq Range(lava'.pool)]_vars

\* C10 witness: the session was stopped with a hazard and its emitter active,
\* and they are still active.
C10_Witness ==
    /\ ended = "stop"
    /\ ~game.running /\ game.gameOver
    /\ lava.lavaHazards # <<>>
    /\ lava.particleManager.particleSystems # <<>>

----------------------------------------------------------------------------
(* Claims about the Player's jump *)

\* C11: jump() on a jumping player changes nothing (isJumping stays true,
\* jumpTimer is not reset); jump() on a player that is not jumping sets
\* isJumping = true and jumpTimer = 0 and nothing else.  Both Player classes.
C11_JumpNoRestart ==
    [][lastOp'.op = "jump" =>
         LET m == MPlayer_of(player) IN
         IF player.isJumping
         THEN /\ player' = player
              /\ MPlayer_jump(m) = m
         ELSE /\ player' = [player EXCEPT !.isJumping = TRUE, !.jumpTimer = 0]
              /\ MPlayer_jump(m) = [m EXCEPT !.isJumping = TRUE, !.jumpTimer = 0]]_vars

\* C11 witness: jump() has just been called in the middle of a jump, whose
\* timer still shows the time flown.
C11_Witness ==
    /\ lastOp.op = "jump"
    /\ player.isJumping
    /\ player.jumpTimer > 0

\* the jump physics of an update with delta deltaTime took p to q as the claim
\* has it: the timer accumulates; the jump ends, with y snapped to the base
\* height, exactly when the timer reaches jumpDuration
C12_JumpStep(p, q, deltaTime) ==
    /\ p.isJumping =>
         /\ q.jumpTimer = p.jumpTimer + deltaTime
         /\ q.isJumping = (p.jumpTimer + deltaTime < JUMP_DURATION)
         /\ ~q.isJumping => q.y = 0
    /\ ~p.isJumping => ~q.isJumping
    /\ q.isJumping => q.jumpTimer < JUMP_DURATION

\* C12: an update ends a jump in exactly the tick in which jumpTimer first
\* reaches jumpDuration, snapping y to the base height, and in no earlier
\* tick; after every update isJumping implies jumpTimer < jumpDuration; and
\* while ticks with dt > 0 keep coming every jump ends.  Both Player classes.
C12_JumpEnds ==
    /\ [][lastOp'.op = "update" =>
            /\ C12_JumpStep(player, player', lastOp'.arg)
            /\ C12_JumpStep(MPlayer_of(player),
                            MPlayer_update(MPlayer_of(player), lastOp'.arg),
                            lastOp'.arg)]_vars
    /\ (player.isJumping ~> ~player.isJumping)

\* C12 witness: the update that took jumpTimer onto jumpDuration exactly has
\* ended the jump on the base height.
C12_Witness ==
    /\ lastOp.op = "update"
    /\ ~player.isJumping
    /\ player.jumpTimer = JUMP_DURATION
    /\ player.y = 0

----------------------------------------------------------------------------
(* Claims about the pose mapper *)

\* a step in which handlePoseUpdate issues a jump command: the only
\* assignment that takes poseJumpCooldownTimer to POSE_JUMP_COOLDOWN
PoseJumpCommand ==
    /\ pose'.poseJumpCooldownTimer = POSE_JUMP_COOLDOWN
    /\ pose.poseJumpCooldownTimer # POSE_JUMP_COOLDOWN

\* C13: with a baseline b established and no pose cooldown, samples that all
\* carry the same shoulderY y, b - y > JUMP_DETECTION_THRESHOLD, give a jump
\* command on the first sample and on no later one, neither during the
\* cooldown nor after it.
C13_OneJumpPerDrop ==
    [][(samples' = samples + 1) =>
          /\ PoseJumpCommand <=> lastOp.op = "init"
          /\ lastOp.op = "init" => player'.isJumping /\ player'.jumpTimer = 0
          /\ lastOp.op # "init" => player' = player]_vars

\* C13 witness: the signal has been held beyond the end of the cooldown.
C13_Witness ==
    /\ lastOp.op = "pose"
    /\ samples >= 44
    /\ pose.poseJumpCooldownTimer = 0
    /\ pose.restingShoulderY = lastOp.arg + JUMP_DETECTION_THRESHOLD \div 2
    /\ ~player.isJumping

\* C14: every simulation tick lowers a running pose jump cooldown by the
\* tick's time (to 0 at most), whether or not a pose sample arrived; so the
\* cooldown of a pose-triggered jump is over after POSE_JUMP_COOLDOWN of game
\* time without any further sample.
C14_CooldownByTicks ==
    [][\A deltaTime \in HoldDTs :
          H_Tick(deltaTime)
              => pose'.poseJumpCooldownTimer =
                     Max(0, pose.poseJumpCooldownTimer - (deltaTime * 6) \div 10)]_vars

----------------------------------------------------------------------------
(* Claims about lanes *)

\* normX values across and beyond [0, 1], on both sides of each zone bound
C15_NormXs ==
    {-500, 0, 349, 350, 351, 500, 649, 650, 651, 1000, 1500}

\* C15: in every reachable state the player's targetLane and currentLane and
\* the lane of every active hazard are in {0, 1, 2}, and so is the target
\* that any keyboard event or pose sample would set from that state.
C15_LanesInRange ==
    /\ player.targetLane \in Lanes
    /\ player.currentLane \in Lanes
    /\ \A mesh \in ActiveMeshes : mesh.lane \in Lanes
    /\ \A key \in Keys :
         Main_handleKeyDown(World, key).player.targetLane \in Lanes
    /\ \A normX \in C15_NormXs :
         /\ Main_poseLane(normX) \in Lanes
         /\ Main_handlePoseUpdate([player |-> player, pose |-> pose], game,
                                  normX, 500).player.targetLane \in Lanes

\* C15 witness: the player has settled in lane 0 in a running session with a
\* hazard active, where a further 'left' asks for lane -1.
C15_Witness ==
    /\ Game_isRunning(game)
    /\ player.targetLane = 0
    /\ player.currentLane = 0
    /\ ~player.isOnCooldown
    /\ lava.lavaHazards # <<>>

\* the Game in a running session around the current player
C16_Running == [World EXCEPT !.game.running = TRUE, !.game.gameOver = FALSE]

\* C16: a setTargetLane call whose clamped lane is the current targetLane
\* changes nothing, the cooldown included; so 'left' at targetLane 0 and
\* 'right' at targetLane 2 change nothing; and a call that is accepted sets
\* cooldownTimer to exactly PLAYER_LANE_CHANGE_COOLDOWN.
C16_SameLaneNoOp ==
    [][lastOp'.op = "setTargetLane" =>
         LET newLane == Max(0, Min(2, lastOp'.arg)) IN
         /\ newLane = player.targetLane => player' = player
         /\ player' # player =>
              /\ player'.targetLane = newLane
              /\ player'.isOnCooldown
              /\ player'.cooldownTimer = PLAYER_LANE_CHANGE_COOLDOWN
         /\ player.targetLane = 0 =>
              Main_handleKeyDown(C16_Running, "ArrowLeft").player = player
         /\ player.targetLane = 2 =>
              Main_handleKeyDown(C16_Running, "ArrowRight").player = player]_vars

\* C16 witness: setTargetLane(-1), what 'left' asks for at targetLane 0, has
\* just been called with no cooldown running, and none was started.
C16_Witness ==
    /\ lastOp = Op("setTargetLane", -1)
    /\ player.targetLane = 0
    /\ player.currentLane = 0
    /\ ~player.isOnCooldown
    /\ player.cooldownTimer = 0

----------------------------------------------------------------------------
(* Claims about the approach of a hazard *)

\* C17: a hazard in lane 1 at playerZ - 50, advanced at speed 10, is active
\* all the way, at playerZ - 50 + 10 * t after ticks of t seconds in all, so
\* at playerZ after 5 seconds however they are cut into ticks; checkCollision
\* then returns true for a player at lane 1 that is not jumping.
C17_HazardArrives ==
    /\ Len(lava.lavaHazards) >= 1
    /\ lava.lavaHazards[1] = 1
    /\ lava.meshes[1].lane = 1
    /\ lava.meshes[1].visible
    /\ lava.meshes[1].z
          = PLAYER_START_Z - ApproachDistance + Travel(ApproachSpeed, lastOp.arg)
    /\ lastOp.arg = ApproachTime => lava.meshes[1].z = player.z
    /\ lastOp.op = "checkCollision" => hitLava

\* C17 witness: checkCollision has returned true after the 5 seconds, in
\* which a second hazard was spawned.
C17_Witness ==
    /\ lastOp = Op("checkCollision", ApproachTime)
    /\ hitLava
    /\ ~player.isJumping
    /\ player.x = LaneX(1)
    /\ lava.meshes[1].z = player.z
    /\ Len(lava.lavaHazards) = 2

----------------------------------------------------------------------------
(* Claims about the pose producer *)

\* an iteration of the prediction loop
C18_Iteration ==
    \E hasLandmarks \in BOOLEAN, normX \in TrackXs, normShoulderY \in TrackYs :
        \/ T_LoadedData(hasLandmarks, normX, normShoulderY)
        \/ T_Predict(hasLandmarks, normX, normShoulderY)

\* C18: an iteration whose videoElement.currentTime equals lastVideoTime
\* runs no detection and delivers no callback; a delivered sample belongs
\* to a timestamp not processed before and is applied by handlePoseUpdate
\* within the iteration, nothing being queued; so no more callbacks are
\* delivered than there were timestamps.
C18_StaleSkipped ==
    /\ [][C18_Iteration /\ tracker.lastVideoTime = tracker.currentTime =>
              /\ lastOp'.op = "skip"
              /\ samples' = samples
              /\ player' = player
              /\ pose' = pose
              /\ tracker'.lastVideoTime = tracker.lastVideoTime]_vars
    /\ [][samples' # samples =>
              /\ samples' = samples + 1
              /\ tracker.lastVideoTime # tracker.currentTime
              /\ tracker'.lastVideoTime = tracker.currentTime
              /\ [player |-> player', pose |-> pose'] =
                     Main_handlePoseUpdate([player |-> player, pose |-> pose],
                                           game, lastOp'.arg[1], lastOp'.arg[2])]_vars
    /\ [](samples <= tracker.currentTime + 1)

\* C18 witness: after a delivered sample that made the player jump, an
\* iteration on the same timestamp was skipped.
C18_Witness ==
    /\ lastOp.op = "skip"
    /\ tracker.lastVideoTime = tracker.currentTime
    /\ tracker.currentTime = 1
    /\ samples = 2
    /\ player.isJumping

----------------------------------------------------------------------------
(* Claims about the keyboard as the only input *)

\* C19: with no pose sample delivered, the keyboard can issue every command,
\* a jump included: in a running session whose player is on the ground,
\* some key makes handleKeyDown start a jump.
C19_KeyboardJumps ==
    (Idle /\ Game_isRunning(game) /\ samples = 0 /\ ~player.isJumping) =>
        \E key \in KeyboardKeys :
            Main_handleKeyDown(World, key).player.isJumping

----------------------------------------------------------------------------
(* Claims about a failed initialization *)

\* a step in which an await of initialize() fails
C20_Failure == I_Settled(FALSE)

\* C20: when the wasm files, the landmarker or the camera fail,
\* initialize() throws to initializeGame(), and from then on the start
\* button is disabled, no Game exists, nothing is scheduled and no tick has
\* run.
C20_FailedInitNeverStarts ==
    /\ [][C20_Failure =>
              page'.initError = "Could not initialize pose detection"]_vars
    /\ [](page.initError # "none" =>
              /\ page.startDisabled
              /\ ~page.gameCreated
              /\ ~ENABLED I_StartClick
              /\ ~game.running
              /\ raf = <<>>
              /\ ticks = 0
              /\ starts = 0
              /\ ~tracker.webcamRunning)
    /\ [][page.initError # "none" => page'.initError = page.initError]_vars

\* C20 witness: the camera was refused after the landmarker was created.
C20_Witness ==
    /\ page.initError = "Could not initialize pose detection"
    /\ tracker.poseLandmarker = Landmarker
    /\ page.startDisabled
    /\ page.initializing = "done"

----------------------------------------------------------------------------
(* Claims about the terminal transition and the order of a tick *)

\* C21: gameOver goes from false to true only in a frame callback whose
\* checkCollision returned true; no other operation, stop() included, sets
\* it.
C21_GameOverOnlyByCollision ==
    [][(~game.gameOver /\ game'.gameOver) => (RunCallback /\ hitLava')]_vars

\* C22: the score is updated after the collision check of the same tick, so
\* the tick that detects the collision adds nothing to the score.
C22_NoScoreOnCollisionTick ==
    [][\A deltaTime \in FrameDTs \cup {0} :
          (Tick(FrameDTs, MaxTicks, deltaTime) /\ hitLava')
              => game'.score = game.score]_vars

----------------------------------------------------------------------------
(* Claims about the lane movement *)

\* the player stands exactly on its target lane
C23_Settled ==
    /\ player.x = LaneX(player.targetLane)
    /\ player.currentLane = player.targetLane

\* C23: after an accepted setTargetLane and under updates of one fixed
\* deltaTime > 0, x never leaves the stretch between its previous value and
\* the target x, in both Player classes alike; the player comes to stand
\* exactly on the target lane with currentLane = targetLane, within
\* MaxMoveTicks updates, and stays there.
C23_ConvergesNoOvershoot ==
    /\ [][M_Update =>
              /\ Min(player.x, LaneX(player.targetLane)) <= player'.x
              /\ player'.x <= Max(player.x, LaneX(player.targetLane))
              /\ MPlayer_update(MPlayer_of(player), frameDelta).x = player'.x
              /\ MPlayer_update(MPlayer_of(player), frameDelta).currentLane
                     = player'.currentLane]_vars
    /\ [](ticks = MaxMoveTicks => C23_Settled)
    /\ [][C23_Settled /\ lastOp.op = "setTargetLane" => C23_Settled']_vars
    /\ <>[]C23_Settled

\* C23 witness: with updates of 1 ms the player has come to stand on lane 2
\* from lane 0, which took more than 200 updates.
C23_Witness ==
    /\ frameDelta = 1
    /\ lastOp = Op("setTargetLane", 2)
    /\ ticks = 250
    /\ player.currentLane = 2
    /\ player.x = LaneX(2)

\* checkCollision for the player p and one hazard in the lane, level with p
C24_Hit(p, lane) ==
    Lava_checkCollision(LavaWith(<<<<lane, p.z>>>>, 1), p)

\* C24: the outcome of checkCollision is determined by the player's
\* discrete lane, be that currentLane or targetLane, and not by the x the
\* player has on its way between two lanes.
C24_LaneDecidesCollision ==
    \/ \A lane \in Lanes :
           C24_Hit(player, lane)
               = C24_Hit([player EXCEPT !.x = LaneX(player.currentLane)], lane)
    \/ \A lane \in Lanes :
           C24_Hit(player, lane)
               = C24_Hit([player EXCEPT !.x = LaneX(player.targetLane)], lane)

----------------------------------------------------------------------------
(* Claims about spawning, despawning and the pools *)

\* the hazard and the emitter that a spawn in the state lava acquires: the
\* last of the pool, or a new one behind those constructed so far
C25_Acquired ==
    [mesh |-> IF lava.pool # <<>> THEN lava.pool[Len(lava.pool)]
              ELSE Len(lava.meshes) + 1,
     system |-> IF lava.particleManager.pool # <<>>
                THEN lava.particleManager.pool[Len(lava.particleManager.pool)]
                ELSE Len(lava.particleManager.systems) + 1]

\* the hazards active after the step that were not active before it
C25_Added == Range(lava'.lavaHazards) \ Range(lava.lavaHazards)

\* C25: update spawns iff spawnTimer + dt >= spawnInterval.  It then adds
\* one hazard, the last of the pool or else a new one, in the lane drawn,
\* placed at playerZ - GAME_AREA_LENGTH * 0.9 and moved on by the movement
\* of the same update, with an emitter acquired for it alone, and sets
\* spawnTimer to 0; a hazard that this movement takes past the despawn
\* margin is back in the pool when update returns.  Otherwise no hazard is
\* added, none is constructed, and spawnTimer has grown by dt.
C25_SpawnIff ==
    [][lastOp'.op = "update" =>
          LET h == C25_Acquired.mesh
              e == C25_Acquired.system
              deltaTime == lastOp'.arg
          IN  IF lava.spawnTimer + deltaTime >= lava.spawnInterval
              THEN /\ lava'.spawnTimer = 0
                   /\ Len(lava'.meshes) =
                          Len(lava.meshes) + (IF lava.pool = <<>> THEN 1 ELSE 0)
                   /\ lava'.meshes[h].lane \in Lanes
                   /\ \E currentSpeed \in LavaSpeeds :
                          lava'.meshes[h].z =
                              PLAYER_START_Z - (GAME_AREA_LENGTH * 9) \div 10
                                  + Travel(currentSpeed, deltaTime)
                   /\ C25_Added \subseteq {h}
                   /\ IF lava'.meshes[h].z > PLAYER_START_Z + PLATFORM_DEPTH * 2
                      THEN /\ C25_Added = {}
                           /\ Count(lava'.pool, h) = 1
                           /\ ~lava'.meshes[h].visible
                           /\ lava'.meshes[h].particleSystem = Null
                           /\ Count(lava'.particleManager.pool, e) = 1
                      ELSE /\ C25_Added = {h}
                           /\ lava'.lavaHazards[Len(lava'.lavaHazards)] = h
                           /\ lava'.meshes[h].visible
                           /\ lava'.meshes[h].particleSystem = e
                           /\ Count(lava'.particleManager.particleSystems, e) = 1
                           /\ Count(lava'.particleManager.pool, e) = 0
                           /\ \A i \in 1..(Len(lava'.lavaHazards) - 1) :
                                  lava'.meshes[lava'.lavaHazards[i]].particleSystem # e
              ELSE /\ lava'.spawnTimer = lava.spawnTimer + deltaTime
                   /\ C25_Added = {}
                   /\ Len(lava'.meshes) = Len(lava.meshes)]_vars

\* C25 witness: the third spawn since the reset has taken a hazard from the
\* pool: two hazards were ever constructed and both are active.
C25_Witness ==
    /\ lastOp.op = "update"
    /\ lava.spawnTimer = 0
    /\ lava.spawnInterval = INITIAL_SPAWN_INTERVAL - 3 * SPAWN_INTERVAL_DECREMENT
    /\ Len(lava.meshes) = 2
    /\ Len(lava.lavaHazards) = 2
    /\ lava.pool = <<>>

\* the z beyond which update despawns a hazard
C26_Margin == PLAYER_START_Z + PLATFORM_DEPTH * 2

\* C26: when update returns, no active hazard is beyond playerZ + 2 *
\* PLATFORM_DEPTH; a hazard that was active and that the update moved
\* beyond it is out of the active list and once in the pool, and its
\* emitter is out of the active emitters and once in the emitter pool;
\* a hazard that was active and was not moved beyond it stays active.
C26_DespawnPastMargin ==
    [][lastOp'.op = "update" =>
          /\ \A i \in 1..Len(lava'.lavaHazards) :
                 lava'.meshes[lava'.lavaHazards[i]].z <= C26_Margin
          /\ \A i \in 1..Len(lava.lavaHazards) :
                 LET h == lava.lavaHazards[i]
                     e == lava.meshes[h].particleSystem
                 IN  IF lava'.meshes[h].z > C26_Margin
                     THEN /\ Count(lava'.lavaHazards, h) = 0
                          /\ Count(lava'.pool, h) = 1
                          /\ ~lava'.meshes[h].visible
                          /\ Count(lava'.particleManager.particleSystems, e) = 0
                          /\ Count(lava'.particleManager.pool, e) = 1
                          /\ ~lava'.particleManager.systems[e].visible
                     ELSE /\ Count(lava'.lavaHazards, h) = 1
                          /\ lava'.meshes[h].particleSystem = e
                          /\ Count(lava'.particleManager.particleSystems, e) = 1]_vars

\* C26 witness: an update of 8 s has despawned the hazard it spawned and
\* the one that had been active before it.
C26_Witness ==
    /\ lastOp = Op("update", 8000)
    /\ lava.lavaHazards = <<>>
    /\ lava.pool = <<2, 1>>
    /\ lava.particleManager.pool = <<2, 1>>
    /\ lava.meshes[1].z > lava.meshes[2].z
    /\ lava.meshes[2].z > C26_Margin

\* the emitter that the i-th active hazard references
C27_Link(i) == lava.meshes[lava.lavaHazards[i]].particleSystem

\* C27: after any updates and resets there are as many active emitters as
\* active hazards, every active hazard references an emitter that is once
\* in the active emitters, no two active hazards reference the same one,
\* and every emitter is once in the pool or once in the active list, never
\* both.
C27_ExclusiveEmitters ==
    /\ Len(lava.particleManager.particleSystems) = Len(lava.lavaHazards)
    /\ \A i \in 1..Len(lava.lavaHazards) :
         /\ C27_Link(i) # Null
         /\ Count(lava.particleManager.particleSystems, C27_Link(i)) = 1
         /\ \A j \in 1..Len(lava.lavaHazards) :
                i # j => C27_Link(i) # C27_Link(j)
    /\ \A e \in 1..Len(lava.particleManager.systems) :
         Count(lava.particleManager.pool, e)
             + Count(lava.particleManager.particleSystems, e) = 1

\* C27 witness: after a reset that pooled two hazards and their emitters,
\* an update has spawned one hazard again with one of the two emitters.
C27_Witness ==
    /\ lastOp.op = "update"
    /\ Len(lava.meshes) = 2
    /\ Len(lava.lavaHazards) = 1
    /\ Len(lava.pool) = 1
    /\ lava.spawnInterval = INITIAL_SPAWN_INTERVAL - SPAWN_INTERVAL_DECREMENT
    /\ Len(lava.particleManager.pool) = 1
    /\ lava.particleManager.particleSystems = <<C27_Link(1)>>
    /\ lava.meshes[lava.pool[1]].z <= C26_Margin

\* C28: every hazard in the pool is hidden and references no emitter,
\* whether the despawn branch of update or reset has put it there.
C28_PooledHazardsCleared ==
    \A i \in 1..Len(lava.pool) :
        /\ ~lava.meshes[lava.pool[i]].visible
        /\ lava.meshes[lava.pool[i]].particleSystem = Null

\* the hazards and the emitters that the managers hold, pooled or active
C29_Hazards(lm) == Len(lm.pool) + Len(lm.lavaHazards)
C29_Emitters(lm) ==
    Len(lm.particleManager.pool) + Len(lm.particleManager.particleSystems)

\* C29: across update and reset the number of hazards held (pooled plus
\* active) and the number of emitters held never fall, every instance ever
\* constructed is still held, and an instance is constructed only by an
\* acquisition that finds the pool empty, one at a time.
C29_PoolsOnlyGrow ==
    [][/\ C29_Hazards(lava') >= C29_Hazards(lava)
       /\ C29_Emitters(lava') >= C29_Emitters(lava)
       /\ C29_Hazards(lava') = Len(lava'.meshes)
       /\ C29_Emitters(lava') = Len(lava'.particleManager.systems)
       /\ Range(lava'.pool) \cup Range(lava'.lavaHazards) = 1..Len(lava'.meshes)
       /\ Range(lava'.particleManager.pool)
              \cup Range(lava'.particleManager.particleSystems)
              = 1..Len(lava'.particleManager.systems)
       /\ Len(lava'.meshes) # Len(lava.meshes) =>
              /\ lava.pool = <<>>
              /\ Len(lava'.meshes) = Len(lava.meshes) + 1
       /\ Len(lava'.particleManager.systems) # Len(lava.particleManager.systems) =>
              /\ lava.particleManager.pool = <<>>
              /\ Len(lava'.particleManager.systems)
                     = Len(lava.particleManager.systems) + 1]_vars

\* C29 witness: a reset has pooled a hazard beside one that a despawn had
\* pooled before; both hazards and both emitters are held.
C29_Witness ==
    /\ lastOp.op = "reset"
    /\ Len(lava.meshes) = 2
    /\ Len(lava.pool) = 2
    /\ Len(lava.particleManager.pool) = 2
    /\ lava.meshes[lava.pool[1]].z > C26_Margin
    /\ lava.meshes[lava.pool[2]].z <= C26_Margin

----------------------------------------------------------------------------
(* Claims about checkCollision as a function *)

\* the active hazard list in the order f
C30_Permuted(f) ==
    [lava EXCEPT !.lavaHazards =
        [i \in 1..Len(lava.lavaHazards) |-> lava.lavaHazards[f[i]]]]

\* C30: checkCollision changes neither the player nor the hazards, the
\* pools or the session, and returns the same for every order of the
\* active hazard list.
C30_PureOrderFree ==
    /\ [](lastOp.op = "checkCollision" =>
             \A f \in Permutations(1..Len(lava.lavaHazards)) :
                 Lava_checkCollision(C30_Permuted(f), player) = hitLava)
    /\ [][CheckCollision =>
             /\ hitLava' = Lava_checkCollision(lava, player)
             /\ <<player, lava, game, pose>>' = <<player, lava, game, pose>>]_vars

\* C30 witness: checkCollision has returned true for two hazards of which
\* the first does not touch the player and the second does.
C30_Witness ==
    /\ lastOp.op = "checkCollision"
    /\ hitLava
    /\ Len(lava.lavaHazards) = 2
    /\ ~C2_LaneOverlap(lava.meshes[lava.lavaHazards[1]])
    /\ C2_LaneOverlap(lava.meshes[lava.lavaHazards[2]])
    /\ C2_ZOverlap(lava.meshes[lava.lavaHazards[2]])

----------------------------------------------------------------------------
(* Claims about the game loop's callback chain *)

\* the pending callbacks of the loop: _update requests
C31_PendingUpdates == {i \in 1..Len(raf) : raf[i].kind = "update"}

\* C31: whatever the order of start(), stop() and frame callbacks, at most
\* one _update callback of the game loop is pending, so that a frame runs at
\* most one simulation tick.
C31_OneCallbackChain == Cardinality(C31_PendingUpdates) <= 1

----------------------------------------------------------------------------
(* Claims about hazards passing the player *)

\* the player stands in its lane on the ground
C32_Standing(p) ==
    /\ p.currentLane = p.targetLane
    /\ p.x = LaneX(p.currentLane)
    /\ ~p.isJumping

\* hazard h went to the pool in this step
C32_Despawned(h) ==
    /\ h \in Range(lava'.pool)
    /\ h \notin Range(lava.pool)

\* C32: no tick of the game loop, whatever its delta, despawns a hazard of
\* the lane in which the player stands on the ground: such a hazard hits the
\* player, and ends the session, before it can pass.
C32_NoTunnelling ==
    [][\A deltaTime \in RunDTs \cup {0} :
          Tick(RunDTs, MaxRunTicks, deltaTime) =>
              ~ \E h \in DOMAIN lava'.meshes :
                    /\ C32_Despawned(h)
                    /\ C32_Standing(player)
                    /\ C32_Standing(player')
                    /\ lava'.meshes[h].lane = player'.currentLane]_vars

----------------------------------------------------------------------------
(* Claims about the end of every hazard *)

\* hazard h is in the pool and not in the active list
C33_Pooled(h) ==
    /\ h \in Range(lava.pool)
    /\ h \notin Range(lava.lavaHazards)

\* emitter ps has gone from the active emitters to the emitter pool
C33_Returned(ps) ==
    /\ ps \in Range(lava.particleManager.pool')
    /\ ps \notin Range(lava.particleManager.particleSystems')

\* C33: while ticks with dt > 0 keep coming, every active hazard is
\* eventually despawned: it leaves the active list for the hazard pool, and
\* in that step its emitter leaves the active emitters for the emitter pool.
C33_EveryHazardDespawned ==
    /\ \A h \in 1..MaxDrainMeshes : IsActive(h) ~> C33_Pooled(h)
    /\ [][\A h \in 1..MaxDrainMeshes :
              (IsActive(h) /\ h \notin Range(lava.lavaHazards')) =>
                  /\ h \in Range(lava.pool')
                  /\ lava.meshes[h].particleSystem # Null
                  /\ C33_Returned(lava.meshes[h].particleSystem)]_vars

\* C33 witness: an update has despawned the first hazard while the second
\* one is still on its way.
C33_Witness ==
    /\ lastOp.op = "update"
    /\ lastOp.arg > 0
    /\ Len(lava.meshes) >= 2
    /\ C33_Pooled(1)
    /\ lava.particleManager.pool # <<>>
    /\ lava.lavaHazards = <<2>>
    /\ lava.meshes[2].z < PLAYER_START_Z

----------------------------------------------------------------------------
(* Claims about the lane the player reports *)

\* C34: after every update, whatever setTargetLane calls and deltas came
\* before, a player whose currentLane equals its targetLane is at that
\* lane's x.
C34_SettledMeansAtLane ==
    (lastOp.op = "update" /\ player.currentLane = player.targetLane)
        => player.x = LaneX(player.currentLane)

----------------------------------------------------------------------------
(* Claims about input while the game is not running *)

\* a step that handles a key or a pose sample
C35_InputStep ==
    \/ \E key \in Keys : KeyDown(key)
    \/ \E normX \in PoseXs, normShoulderY \in PoseYs : PoseUpdate(normX, normShoulderY)

\* C35: while isRunning() is false (before the deferred start callback, after
\* a game over, after stop()), a key or a pose sample changes nothing of the
\* player (targetLane, cooldown, jump) nor of the pose mapper
\* (restingShoulderY, poseJumpCooldownTimer).
C35_NoInputWhileStopped ==
    [][(~(game.running /\ ~game.gameOver) /\ C35_InputStep) =>
           /\ player' = player
           /\ pose' = pose]_vars

\* C35 witness: a pose sample was handled between start() and the deferred
\* start callback, and left the player and the pose mapper as they were.
C35_Witness ==
    /\ starts = 1
    /\ samples = 1
    /\ raf # <<>>
    /\ Head(raf).kind = "start"
    /\ ~(game.running /\ ~game.gameOver)
    /\ pose = NewPose
    /\ player.targetLane = 1
    /\ ~player.isOnCooldown
    /\ ~player.isJumping

----------------------------------------------------------------------------
(* Claims about the pose jump trigger *)

\* the jump rule has fired in this step: the pose cooldown was started
C36_Fired ==
    /\ pose.poseJumpCooldownTimer < POSE_JUMP_COOLDOWN
    /\ pose'.poseJumpCooldownTimer = POSE_JUMP_COOLDOWN

\* C36: whenever the jump rule of handlePoseUpdate fires, the player begins
\* a new jump in that call: it is jumping with jumpTimer = 0.
C36_TriggerMakesJump ==
    [][C36_Fired => (player'.isJumping /\ player'.jumpTimer = 0)]_vars

----------------------------------------------------------------------------
(* Claims about the two Player classes *)

\* the two players agree on the lane, cooldown and jump fields and on x
C37_SameFields ==
    /\ player.targetLane = mplayer.targetLane
    /\ player.currentLane = mplayer.currentLane
    /\ player.isOnCooldown = mplayer.isOnCooldown
    /\ player.cooldownTimer = mplayer.cooldownTimer
    /\ player.isJumping = mplayer.isJumping
    /\ player.jumpTimer = mplayer.jumpTimer
    /\ player.x = mplayer.x

\* C37 as stated: after every sequence of setTargetLane, jump, reset and
\* update calls the sprite Player and the model Player agree on targetLane,
\* currentLane, isOnCooldown, cooldownTimer, isJumping, jumpTimer and x, and
\* while jumping on the height above the base height.
C37_Equivalent ==
    /\ C37_SameFields
    /\ player.isJumping => player.y = mplayer.y

\* C37 amended: the two agree on those fields after every sequence of
\* calls, and on the height above base while jumping from the first update
\* of the jump on; between jump() and that update the sprite is still at the
\* bounce height of its last idle update while the model is at base height.
\* While not jumping the model is at base height and the sprite at base
\* height plus its bounce.
C37_EquivalentOnceUpdated ==
    /\ C37_SameFields
    /\ (player.isJumping /\ lastOp.op = "update") => player.y = mplayer.y
    /\ (player.isJumping /\ player.y # mplayer.y) =>
           /\ lastOp.op # "update"
           /\ player.jumpTimer = 0
           /\ mplayer.y = 0
           /\ player.y = BounceOffset(player.bounceTimer)
    /\ ~player.isJumping =>
           /\ mplayer.y = 0
           /\ player.y = BounceOffset(player.bounceTimer)

\* C37 witness: both players are in mid jump and between lanes after an
\* update, at the same height and the same x.
C37_Witness ==
    /\ lastOp.op = "update"
    /\ player.isJumping
    /\ mplayer.isJumping
    /\ player.jumpTimer > 0
    /\ player.y > 0
    /\ player.y = mplayer.y
    /\ player.targetLane = 2
    /\ player.x # LaneX(1)
    /\ player.x # LaneX(2)
    /\ player.x = mplayer.x

====
